---- MODULE Spec2Model ----
(***************************************************************************)
(* Model of the conversion orchestrator mozc::Converter                    *)
(* (src/src/converter/converter.cc): the public operations on one Segments *)
(* buffer, the ApplyConversion / Rewrite&Suppress / Trim pipeline, segment *)
(* resizing with boundary repair, commits and FinishConversion.            *)
(*                                                                         *)
(* Strings are sequences of UTF-8 bytes.  The collaborators (immutable     *)
(* converter, predictor, rewriter, suppression dictionary, reverse         *)
(* converter, history reconstructor) are the environment: every answer     *)
(* they give during one public operation is an "oracle" record chosen      *)
(* nondeterministically by the action that models the operation.           *)
(***************************************************************************)
EXTENDS Integers, Sequences, FiniteSets, TLC

(***************************************************************************)
(* Bounds of the model.                                                    *)
(***************************************************************************)
\* Number of public operations applied to the buffer in one behaviour.
MaxOps == 2
\* Number of public operations in one behaviour of the commit scenario.
MaxDeepOps == 4

(***************************************************************************)
(* Program constants.                                                      *)
(***************************************************************************)
\* SetKey: segments->set_max_history_segments_size(4)
kMaxHistory == 4
\* std::numeric_limits<uint8_t>::max() in ResizeSegment
kUint8Max == 255
\* transliteration::NUM_T13N_TYPES (transliteration.h, not part of src/)
NUM_T13N_TYPES == 11
\* CompletePosIds: kExpandSizeStart, kExpandSizeDiff, kExpandSizeMax
kExpandSizeStart == 5
kExpandSizeDiff == 50
kExpandSizeMax == 80
\* general_noun_id_ = pos_matcher_.GetGeneralNounId(): some non-zero POS id
general_noun_id == 9
\* size_t arithmetic is modular.  TLC's integers are 32 bits wide, so the
\* 64-bit width of size_t is scaled down to 16 bits: a sum of two size_t
\* values wraps at SizeTMod exactly as the real one wraps at 2^64.
SizeTMod == 2 ^ 16
\* kErrorIndex = static_cast<size_t>(-1)
kErrorIndex == SizeTMod - 1

(***************************************************************************)
(* UTF-8 strings (base/util.h).                                            *)
(***************************************************************************)
\* Length in bytes of the character that starts with lead byte b.
OneCharLen(b) ==
  IF b < 192 THEN 1 ELSE IF b < 224 THEN 2 ELSE IF b < 240 THEN 3 ELSE 4

RECURSIVE CharsLen(_)
\* Util::CharsLen: the number of codepoints of a UTF-8 string.
CharsLen(s) ==
  IF s = <<>> THEN 0
  ELSE IF OneCharLen(s[1]) >= Len(s) THEN 1
  ELSE 1 + CharsLen(SubSeq(s, OneCharLen(s[1]) + 1, Len(s)))

RECURSIVE BytesOfChars(_, _)
\* Number of bytes taken by the first n codepoints of s (all of s if shorter).
BytesOfChars(s, n) ==
  IF n = 0 \/ s = <<>> THEN 0
  ELSE IF OneCharLen(s[1]) >= Len(s) THEN Len(s)
  ELSE OneCharLen(s[1])
       + BytesOfChars(SubSeq(s, OneCharLen(s[1]) + 1, Len(s)), n - 1)

\* Util::Utf8SubString(src, start, length): `length` codepoints from
\* codepoint offset `start`.
Utf8SubString(s, start, length) ==
  LET from == BytesOfChars(s, start)
      rest == SubSeq(s, from + 1, Len(s))
  IN  SubSeq(rest, 1, BytesOfChars(rest, length))

\* The readings used as inputs: "", "あ", "い", "あい", "あい1".
KeyEmpty == <<>>
KeyA == <<227, 129, 130>>
KeyI == <<227, 129, 132>>
KeyAI == KeyA \o KeyI
KeyAI1 == KeyA \o KeyI \o <<49>>

(***************************************************************************)
(* Segment model (converter/segments.h).                                   *)
(***************************************************************************)
SegmentTypes == {"FREE", "FIXED_BOUNDARY", "FIXED_VALUE", "SUBMITTED", "HISTORY"}

\* A Segment::Candidate produced for reading k: its rank i makes its value.
Candidate(k, v, pos) ==
  [key |-> k, value |-> v, attributes |-> {}, consumed_key_size |-> 0,
   lid |-> pos, rid |-> pos, cost |-> pos, wcost |-> pos,
   structure_cost |-> pos]

\* A freshly constructed Segment: FREE, empty key, no candidates.
NewSegment ==
  [key |-> <<>>, segment_type |-> "FREE", candidates |-> <<>>,
   meta_candidates |-> <<>>]

\* A freshly constructed Segments buffer.
NewSegments ==
  [segs |-> <<>>, max_history_segments_size |-> kMaxHistory,
   resized |-> FALSE, revert_entries |-> 0]

segments_size(S) == Len(S.segs)

RECURSIVE HistoryPrefix(_)
HistoryPrefix(segs) ==
  IF segs = <<>> THEN 0
  ELSE IF segs[1].segment_type \notin {"HISTORY", "SUBMITTED"} THEN 0
  ELSE 1 + HistoryPrefix(Tail(segs))

\* Segments::history_segments_size: the leading segments that are HISTORY or
\* SUBMITTED.
history_segments_size(S) == HistoryPrefix(S.segs)

conversion_segments_size(S) == segments_size(S) - history_segments_size(S)

\* Segments::conversion_segment(i)
conversion_segment(S, i) == S.segs[history_segments_size(S) + i + 1]

\* The conversion suffix, as a sequence of segments.
conversion_segments(S) ==
  SubSeq(S.segs, history_segments_size(S) + 1, Len(S.segs))

\* Segments::clear_conversion_segments
clear_conversion_segments(S) ==
  [S EXCEPT !.segs = SubSeq(S.segs, 1, history_segments_size(S)),
            !.resized = FALSE]

\* Segments::Clear: all segments and the revert entries.
Clear(S) == [S EXCEPT !.segs = <<>>, !.resized = FALSE, !.revert_entries = 0]

\* Segments::insert_segment(i) (0-based): a fresh segment before position i.
insert_segment(segs, i, seg) ==
  SubSeq(segs, 1, i) \o <<seg>> \o SubSeq(segs, i + 1, Len(segs))

\* Segments::erase_segments(i, n) (0-based).
erase_segments(segs, i, n) ==
  SubSeq(segs, 1, i) \o SubSeq(segs, i + n + 1, Len(segs))

\* What reading candidate 0 of a segment without candidates, or a
\* meta-candidate of a segment without meta-candidates, may yield.
GarbageCandidate == Candidate(<<>>, <<63>>, 0)

\* Segment::meta_candidate(i), 0-based: an index past the end reads entry 0.
meta_candidate(seg, i) ==
  IF Len(seg.meta_candidates) = 0 THEN GarbageCandidate
  ELSE IF i >= Len(seg.meta_candidates) THEN seg.meta_candidates[1]
  ELSE seg.meta_candidates[i + 1]

\* Segment::move_candidate(old_idx, 0), 0-based: a meta-candidate (negative
\* index) is copied to the front, a candidate is rotated to the front.
move_candidate(seg, old_idx) ==
  IF old_idx < 0
    THEN [seg EXCEPT !.candidates =
            <<meta_candidate(seg, -old_idx - 1)>> \o seg.candidates]
    ELSE [seg EXCEPT !.candidates =
            <<seg.candidates[old_idx + 1]>>
            \o SubSeq(seg.candidates, 1, old_idx)
            \o SubSeq(seg.candidates, old_idx + 2, Len(seg.candidates))]


(***************************************************************************)
(* Collaborators.  Their code is outside the orchestrator; the model gives *)
(* each a small family of behaviours, selected by the oracle of the        *)
(* operation.                                                              *)
(***************************************************************************)
\* Largest number of candidates the decoder returns for one segment.
MaxCands == 3
\* Largest number of answers the rewriter gives to
\* CheckResizeSegmentsRequest during one public operation.
MaxResizeAnswers == 2

\* POS id the decoder assigns to the candidates it produces.
DecoderPosId == 1 + general_noun_id

\* The i-th candidate the decoder produces for reading k: value k + digit i.
DecoderCandidate(k, i) == Candidate(k, k \o <<48 + i>>, DecoderPosId)

\* A candidate contributed by a rewriter or the predictor: no POS ids.
RewriterCandidate(k) == Candidate(k, k \o <<35>>, 0)
PredictorCandidate(k, i, consumed) ==
  IF consumed = 0 THEN Candidate(k, k \o <<64 + i>>, 0)
  ELSE [Candidate(k, k \o <<64 + i>>, 0) EXCEPT
          !.attributes = {"PARTIALLY_KEY_CONSUMED"},
          !.consumed_key_size = consumed]

\* Transliterations of reading k (the meta-candidates).
MetaCandidates(k) == <<Candidate(k, k, 0), Candidate(k, k \o <<126>>, 0)>>

\* Number of candidates decoder behaviour m yields for reading k.
DecoderYield(m, k) ==
  IF k = <<>> THEN 0
  ELSE IF m.short /\ CharsLen(k) # 1 THEN 0
  ELSE m.n

\* ImmutableConverter::ConvertForRequest: fills the candidates of the
\* conversion segments, keeping their keys and boundaries; a FIXED_VALUE
\* segment keeps the candidates the user chose from.
ConvertForRequest(S, m) ==
  LET h == history_segments_size(S)
      fill(seg) ==
        [seg EXCEPT !.candidates =
           [i \in 1..DecoderYield(m, seg.key) |-> DecoderCandidate(seg.key, i)]]
  IN  [S EXCEPT !.segs =
         [i \in 1..Len(S.segs) |->
            IF i > h /\ S.segs[i].segment_type # "FIXED_VALUE"
              THEN fill(S.segs[i]) ELSE S.segs[i]]]

\* Whether candidate list cs holds a candidate with value v.
HasValue(cs, v) == \E i \in 1..Len(cs) : cs[i].value = v

\* Predictor::PredictForRequest: appends n predictions to the first
\* conversion segment (those it does not hold yet).
PredictForRequest(S, n, consumed) ==
  LET h == history_segments_size(S)
      seg == S.segs[h + 1]
      fresh == SelectSeq([i \in 1..n |->
                            PredictorCandidate(seg.key, i, consumed)],
                         LAMBDA c : ~HasValue(seg.candidates, c.value))
  IN  IF Len(S.segs) = h THEN S
      ELSE [S EXCEPT !.segs[h + 1].candidates = seg.candidates \o fresh]

\* Rewriter::Rewrite under behaviour m: "false" and "true" change nothing
\* and return that value, "add" appends a rewriter candidate to every
\* conversion segment, "meta" installs the meta-candidates.
Rewrite(S, m) ==
  LET h == history_segments_size(S)
      rw(seg) ==
        IF m = "add" /\ ~HasValue(seg.candidates, RewriterCandidate(seg.key).value)
          THEN [seg EXCEPT !.candidates = seg.candidates \o <<RewriterCandidate(seg.key)>>]
        ELSE IF m = "meta"
          THEN [seg EXCEPT !.meta_candidates = MetaCandidates(seg.key)]
        ELSE seg
  IN  [S |-> [S EXCEPT !.segs =
                [i \in 1..Len(S.segs) |->
                   IF i > h THEN rw(S.segs[i]) ELSE S.segs[i]]],
       ret |-> m # "false"]

\* SuppressionDictionary::SuppressEntry for the non-empty dictionary of the
\* model: it blocks the decoder's first candidate and the second
\* transliteration of every reading.
SuppressEntry(key, value) == value = key \o <<49>> \/ value = key \o <<126>>

(***************************************************************************)
(* Helpers of converter.cc (anonymous namespace).                          *)
(***************************************************************************)
\* GetSegmentIndex: conversion-relative to absolute, in size_t arithmetic.
GetSegmentIndex(S, segment_index) ==
  LET result == (history_segments_size(S) + segment_index) % SizeTMod
  IN  IF result >= segments_size(S) THEN kErrorIndex ELSE result

\* SetKey
SetKey(S, key) ==
  LET c == clear_conversion_segments(
             [S EXCEPT !.max_history_segments_size = kMaxHistory])
  IN  [c EXCEPT !.segs =
         Append(c.segs, [NewSegment EXCEPT !.key = key,
                                           !.segment_type = "FREE"])]

\* A faulty check: the key is reset on every call.
ShouldSetKeyForPrediction_Always(key, S) == TRUE

\* ShouldSetKeyForPrediction
ShouldSetKeyForPrediction(key, S) ==
  \/ conversion_segments_size(S) = 0
  \/ conversion_segment(S, 0).key # key

\* A faulty validity check: a segment that holds meta-candidates only is
\* accepted on every platform.
IsValidSegments_AnyPlatform(request, S) ==
  \A i \in 1..Len(S.segs) :
     \/ Len(S.segs[i].candidates) # 0
     \/ Len(S.segs[i].meta_candidates) # 0

\* IsValidSegments
IsValidSegments(request, S) ==
  \A i \in 1..Len(S.segs) :
     \/ Len(S.segs[i].candidates) # 0
     \/ request.mobile /\ Len(S.segs[i].meta_candidates) # 0

(***************************************************************************)
(* The pipeline of converter.cc.  Every operator takes the buffer S and    *)
(* returns a record with the buffer after the call (S), the return value   *)
(* (ret), the collaborator calls made (calls), the usage counters emitted  *)
(* (stats), whether undefined behaviour was met (ub) and whether every     *)
(* DCHECK that was evaluated held (dcheck).  addr is the absolute index of  *)
(* the segment an operation that takes a segment_index read, modified or   *)
(* forwarded to a collaborator (NoAddr when it addressed none).            *)
(***************************************************************************)
NoAddr == kErrorIndex

Result(S, ret, calls) ==
  [S |-> S, ret |-> ret, calls |-> calls, stats |-> <<>>, ub |-> FALSE,
   dcheck |-> TRUE, mid |-> <<>>, depth |-> 0, addr |-> NoAddr]

RECURSIVE SeqSum(_)
\* std::accumulate(new_size_array.begin(), new_size_array.end(), 0)
SeqSum(a) == IF a = <<>> THEN 0 ELSE Head(a) + SeqSum(Tail(a))

RECURSIVE ConcatKeys(_)
\* The concatenation of the keys of a sequence of segments.
ConcatKeys(segs) ==
  IF segs = <<>> THEN <<>> ELSE Head(segs).key \o ConcatKeys(Tail(segs))

RECURSIVE SumCharsLen(_)
\* The sum of Util::CharsLen over the keys of a sequence of segments.
SumCharsLen(segs) ==
  IF segs = <<>> THEN 0
  ELSE CharsLen(Head(segs).key) + SumCharsLen(Tail(segs))

\* A faulty collection loop: it walks every segment from the start index,
\* whether or not the key collected so far is long enough.
CollectCount_Greedy(segs, key_len, total_size) == Len(segs)

RECURSIVE CollectCount(_, _, _)
\* ResizeSegments, the loop that collects the source key: the number of
\* segments of `segs` walked until the accumulated codepoint length
\* key_len reaches total_size (or the segments are exhausted).
CollectCount(segs, key_len, total_size) ==
  IF segs = <<>> THEN 0
  ELSE IF key_len + CharsLen(Head(segs).key) >= total_size THEN 1
  ELSE 1 + CollectCount(Tail(segs), key_len + CharsLen(Head(segs).key),
                        total_size)

RECURSIVE SliceKeys_NoAdvance(_, _, _, _)
\* A faulty slicing loop: `consumed` is not advanced, so that every slice
\* is taken from the start of key.
SliceKeys_NoAdvance(key, key_len, sizes, consumed) ==
  IF sizes = <<>> THEN <<>>
  ELSE IF Head(sizes) # 0 /\ consumed < key_len
    THEN <<Utf8SubString(key, consumed, Head(sizes))>>
         \o SliceKeys_NoAdvance(key, key_len, Tail(sizes), consumed)
    ELSE SliceKeys_NoAdvance(key, key_len, Tail(sizes), consumed)

RECURSIVE SliceKeys(_, _, _, _)
\* ResizeSegments, the loop that slices the new keys: for each non-zero
\* size, while consumed < key_len, the next new_size codepoints of key.
SliceKeys(key, key_len, sizes, consumed) ==
  IF sizes = <<>> THEN <<>>
  ELSE IF Head(sizes) # 0 /\ consumed < key_len
    THEN <<Utf8SubString(key, consumed, Head(sizes))>>
         \o SliceKeys(key, key_len, Tail(sizes), consumed + Head(sizes))
    ELSE SliceKeys(key, key_len, Tail(sizes), consumed)

RECURSIVE ConsumedBy(_, _, _)
\* The value of `consumed` after the slicing loop.
ConsumedBy(key_len, sizes, consumed) ==
  IF sizes = <<>> THEN consumed
  ELSE IF Head(sizes) # 0 /\ consumed < key_len
    THEN ConsumedBy(key_len, Tail(sizes), consumed + Head(sizes))
    ELSE ConsumedBy(key_len, Tail(sizes), consumed)

\* A handler that fails before it touches the buffer.
Fail(S) == Result(S, FALSE, <<>>)

\* A faulty remainder step: the key of the segment that follows is lost
\* when the remainder replaces it.
WithRemainder_DropsNext(inserted, next_segment_index, has_rest, rest) ==
  IF ~has_rest THEN inserted
  ELSE IF next_segment_index < Len(inserted)
    THEN insert_segment(
           erase_segments(inserted, next_segment_index, 1),
           next_segment_index,
           [NewSegment EXCEPT !.segment_type = "FREE", !.key = rest])
    ELSE insert_segment(inserted, next_segment_index,
           [NewSegment EXCEPT !.segment_type = "FREE", !.key = rest])

\* A faulty remainder step: the remainder is pinned like the new segments.
WithRemainder_Pinned(inserted, next_segment_index, has_rest, rest) ==
  IF ~has_rest THEN inserted
  ELSE IF next_segment_index < Len(inserted)
    THEN insert_segment(
           erase_segments(inserted, next_segment_index, 1),
           next_segment_index,
           [NewSegment EXCEPT
              !.segment_type = "FIXED_BOUNDARY",
              !.key = rest \o inserted[next_segment_index + 1].key])
    ELSE insert_segment(inserted, next_segment_index,
           [NewSegment EXCEPT !.segment_type = "FIXED_BOUNDARY",
                              !.key = rest])

\* ResizeSegments, the remainder step: when codepoints of the source key
\* are left over (has_rest), they are prepended to the segment at
\* next_segment_index, which is replaced by a FREE segment, or make a new
\* FREE segment when no segment follows.
WithRemainder(inserted, next_segment_index, has_rest, rest) ==
  IF ~has_rest THEN inserted
  ELSE IF next_segment_index < Len(inserted)
    THEN insert_segment(
           erase_segments(inserted, next_segment_index, 1),
           next_segment_index,
           [NewSegment EXCEPT
              !.segment_type = "FREE",
              !.key = rest \o inserted[next_segment_index + 1].key])
    ELSE insert_segment(inserted, next_segment_index,
           [NewSegment EXCEPT !.segment_type = "FREE", !.key = rest])

\* ResizeSegments, the insertion step: a FIXED_BOUNDARY segment per new key
\* at start, start + 1, ...
InsertPinned(erased, start, new_keys) ==
  SubSeq(erased, 1, start)
  \o [i \in 1..Len(new_keys) |->
        [NewSegment EXCEPT !.segment_type = "FIXED_BOUNDARY",
                           !.key = new_keys[i]]]
  \o SubSeq(erased, start + 1, Len(erased))

\* ResizeSegments from the slicing of the collected key (key, of key_len
\* codepoints, taken from segments_size_ segments) to set_resized.
ResizeSliced(S, start, sizes, segments_size_, key, key_len, new_keys, consumed) ==
  [S EXCEPT
     !.segs = WithRemainder(
                InsertPinned(erase_segments(S.segs, start, segments_size_),
                             start, new_keys),
                start + Len(new_keys), consumed < key_len,
                Utf8SubString(key, consumed, key_len - consumed)),
     !.resized = TRUE]

\* ResizeSegments from the check of the collected key on: src are the
\* segments the key was collected from.
ResizeCollected(S, start, sizes, src, key_len) ==
  IF key_len = 0 \/ key_len < SeqSum(sizes)
    THEN [ok |-> FALSE, S |-> S]
    ELSE [ok |-> TRUE,
          S |-> ResizeSliced(S, start, sizes, Len(src), ConcatKeys(src),
                             key_len,
                             SliceKeys(ConcatKeys(src), key_len, sizes, 0),
                             ConsumedBy(key_len, sizes, 0))]

\* The segments ResizeSegments collects the source key from.
CollectSource(from, total_size) ==
  SubSeq(from, 1, CollectCount(from, 0, total_size))

\* ResizeSegments, boundary repair (from the collection of the source key
\* to set_resized): S is the buffer, start the absolute index of the first
\* segment, sizes the new sizes, whose sum is not 0.  The result is the
\* repaired buffer, or S itself with ok = FALSE when the keys from start on
\* are shorter than the sum of the sizes.
ResizeBoundary(S, start, sizes) ==
  ResizeCollected(S, start, sizes,
    CollectSource(SubSeq(S.segs, start + 1, Len(S.segs)), SeqSum(sizes)),
    SumCharsLen(
      CollectSource(SubSeq(S.segs, start + 1, Len(S.segs)), SeqSum(sizes))))

\* A faulty suppression pass: the meta-candidates are filtered too.
SuppressCandidates_MetaToo(S) ==
  [S EXCEPT !.segs =
     [i \in 1..Len(S.segs) |->
        IF i > history_segments_size(S)
          THEN [S.segs[i] EXCEPT
                  !.candidates =
                    SelectSeq(@, LAMBDA c : ~SuppressEntry(c.key, c.value)),
                  !.meta_candidates =
                    SelectSeq(@, LAMBDA c : ~SuppressEntry(c.key, c.value))]
          ELSE S.segs[i]]]

\* The suppression pass of RewriteAndSuppressCandidates: every blocked
\* candidate of every conversion segment is erased.
SuppressCandidates(S) ==
  [S EXCEPT !.segs =
     [i \in 1..Len(S.segs) |->
        IF i > history_segments_size(S)
          THEN [S.segs[i] EXCEPT !.candidates =
                  SelectSeq(@, LAMBDA c : ~SuppressEntry(c.key, c.value))]
          ELSE S.segs[i]]]

\* Maximum of two integers (std::max<int>).
Max(a, b) == IF a >= b THEN a ELSE b

\* A faulty trim: the limit left by the meta-candidates has no floor of 1.
TrimSegment_NoFloor(segment, limit) ==
  IF Len(segment.candidates) < Max(0, limit - Len(segment.meta_candidates))
    THEN segment
    ELSE [segment EXCEPT !.candidates =
            SubSeq(@, 1, Max(0, limit - Len(segment.meta_candidates)))]

\* TrimCandidates, one segment under limit `limit`.
TrimSegment(segment, limit) ==
  IF Len(segment.candidates) < Max(1, limit - Len(segment.meta_candidates))
    THEN segment
    ELSE [segment EXCEPT !.candidates =
            SubSeq(@, 1, Max(1, limit - Len(segment.meta_candidates)))]

\* TrimCandidates; request.limit < 0 stands for a request without
\* candidates_size_limit.
TrimCandidates(request, S) ==
  IF request.limit < 0 THEN S
  ELSE [S EXCEPT !.segs =
          [i \in 1..Len(S.segs) |->
             IF i > history_segments_size(S)
               THEN TrimSegment(S.segs[i], request.limit) ELSE S.segs[i]]]

\* The rewriter's answer to the (k+1)-th CheckResizeSegmentsRequest of one
\* public operation: a request, or <<>> for std::nullopt.
CheckResizeSegmentsRequest(o, k) ==
  IF k < Len(o.resize) THEN <<o.resize[k + 1]>> ELSE <<>>

\* A faulty suppression step: the pass runs whatever Rewrite returned.
Suppressed_Always(rw, suppress) ==
  IF ~suppress
    THEN Result(rw.S, TRUE, <<"CheckResizeSegmentsRequest", "Rewrite">>)
  ELSE Result(SuppressCandidates(rw.S), TRUE,
              <<"CheckResizeSegmentsRequest", "Rewrite", "Suppress">>)

\* RewriteAndSuppressCandidates, steps 2 and 3, given the rewriter's result.
Suppressed(rw, suppress) ==
  IF ~rw.ret
    THEN Result(rw.S, TRUE, <<"CheckResizeSegmentsRequest", "Rewrite">>)
  ELSE IF ~suppress
    THEN Result(rw.S, TRUE, <<"CheckResizeSegmentsRequest", "Rewrite">>)
  ELSE Result(SuppressCandidates(rw.S), TRUE,
              <<"CheckResizeSegmentsRequest", "Rewrite", "Suppress">>)

\* RewriteAndSuppressCandidates after the resize check: rewrite, suppress.
RewriteThenSuppress(S, o) == Suppressed(Rewrite(S, o.rewrite), o.suppress)

\* A faulty step 1: after a resize that succeeded the outer call goes on
\* to rewrite and suppress the resized buffer once more.
ResizedOrRewritten_RewritesAgain(rs, S, o, k) ==
  IF rs.ret
    THEN [RewriteThenSuppress(rs.S, o)
            EXCEPT !.calls = <<"CheckResizeSegmentsRequest">> \o rs.calls
                             \o Tail(@),
                   !.depth = Max(rs.depth, k + 1)]
    ELSE RewriteThenSuppress(S, o)

\* RewriteAndSuppressCandidates, given the result rs of the resize that the
\* rewriter asked for: return at once when it succeeded.
ResizedOrRewritten(rs, S, o, k) ==
  IF rs.ret
    THEN [rs EXCEPT !.calls = <<"CheckResizeSegmentsRequest">> \o @,
                    !.depth = Max(@, k + 1), !.mid = <<>>,
                    !.addr = NoAddr]
    ELSE RewriteThenSuppress(S, o)

\* ApplyConversion, the last step: TrimCandidates on the pipeline's result.
Trimmed(r, request) ==
  [r EXCEPT !.S = TrimCandidates(request, @),
            !.calls = <<"ConvertForRequest">> \o @ \o <<"Trim">>]

\* ResizeSegments, the end: the result a of ApplyConversion on the repaired
\* buffer mid.
Resized(a, mid, start) ==
  [a EXCEPT !.ret = TRUE, !.mid = <<mid>>, !.addr = start]

RECURSIVE ApplyConversion(_, _, _, _)

\* ResizeSegments after boundary repair b.
ResizeRepaired(S, b, request, start, o, k) ==
  IF ~b.ok THEN Fail(S)
  ELSE Resized(ApplyConversion(b.S, request, o, k), b.S, start)

\* A faulty ResizeSegments that serves requests of every type.
ResizeSegments_AnyType(S, request, start_segment_index, new_size_array, o, k) ==
  IF GetSegmentIndex(S, start_segment_index) = kErrorIndex THEN Fail(S)
  ELSE IF SeqSum(new_size_array) = 0 THEN Fail(S)
  ELSE ResizeRepaired(S,
         ResizeBoundary(S, GetSegmentIndex(S, start_segment_index),
                        new_size_array),
         request, GetSegmentIndex(S, start_segment_index), o, k)

\* Converter::ResizeSegments.  k is the number of resize requests of the
\* rewriter already served in this public operation.
ResizeSegments(S, request, start_segment_index, new_size_array, o, k) ==
  IF request.request_type # "CONVERSION" THEN Fail(S)
  ELSE IF GetSegmentIndex(S, start_segment_index) = kErrorIndex THEN Fail(S)
  ELSE IF SeqSum(new_size_array) = 0 THEN Fail(S)
  ELSE ResizeRepaired(S,
         ResizeBoundary(S, GetSegmentIndex(S, start_segment_index),
                        new_size_array),
         request, GetSegmentIndex(S, start_segment_index), o, k)

\* Converter::RewriteAndSuppressCandidates
RewriteAndSuppressCandidates(S, request, o, k) ==
  IF CheckResizeSegmentsRequest(o, k) = <<>> THEN RewriteThenSuppress(S, o)
  ELSE ResizedOrRewritten(
         ResizeSegments(S, request,
                        CheckResizeSegmentsRequest(o, k)[1].segment_index,
                        CheckResizeSegmentsRequest(o, k)[1].segment_sizes,
                        o, k + 1),
         S, o, k)

\* A faulty ApplyConversion: a decoder that returns false ends the
\* pipeline.
ApplyConversion_StopsOnFailure(S, request, o, k) ==
  IF ~o.conv.ret
    THEN Result(ConvertForRequest(S, o.conv), TRUE, <<"ConvertForRequest">>)
    ELSE Trimmed(RewriteAndSuppressCandidates(ConvertForRequest(S, o.conv),
                                              request, o, k),
                 request)

\* Converter::ApplyConversion
ApplyConversion(S, request, o, k) ==
  Trimmed(RewriteAndSuppressCandidates(ConvertForRequest(S, o.conv),
                                       request, o, k),
          request)

\* A faulty ResizeSegment: an offset of 0 is not rejected.
ResizeSegment_ZeroOffset(S, request, segment_index, offset_length, o) ==
  IF request.request_type # "CONVERSION" THEN Fail(S)
  ELSE IF segment_index >= conversion_segments_size(S) THEN Fail(S)
  ELSE IF conversion_segment(S, segment_index).key = <<>> THEN Fail(S)
  ELSE IF \/ CharsLen(conversion_segment(S, segment_index).key)
             + offset_length <= 0
          \/ CharsLen(conversion_segment(S, segment_index).key)
             + offset_length > kUint8Max
    THEN Fail(S)
  ELSE ResizeSegments(S, request, segment_index,
         <<CharsLen(conversion_segment(S, segment_index).key) + offset_length>>,
         o, 0)

\* Converter::ResizeSegment
ResizeSegment(S, request, segment_index, offset_length, o) ==
  IF request.request_type # "CONVERSION" THEN Fail(S)
  ELSE IF offset_length = 0 THEN Fail(S)
  ELSE IF segment_index >= conversion_segments_size(S) THEN Fail(S)
  ELSE IF conversion_segment(S, segment_index).key = <<>> THEN Fail(S)
  ELSE IF \/ CharsLen(conversion_segment(S, segment_index).key)
             + offset_length <= 0
          \/ CharsLen(conversion_segment(S, segment_index).key)
             + offset_length > kUint8Max
    THEN Fail(S)
  ELSE ResizeSegments(S, request, segment_index,
         <<CharsLen(conversion_segment(S, segment_index).key) + offset_length>>,
         o, 0)

\* StartConversion, the end: whether the result a of ApplyConversion is
\* valid.
Validated(a, request) == [a EXCEPT !.ret = IsValidSegments(request, a.S)]

\* StartConversion, its DCHECK_EQ on the request type, on the result r of
\* the rest of the function.
CheckedConversion(r, request) ==
  [r EXCEPT !.dcheck = request.request_type = "CONVERSION"]

\* A faulty StartConversion: an empty key is converted like any other.
StartConversion_KeyUnchecked(S, request, o) ==
  CheckedConversion(
    Validated(ApplyConversion(SetKey(S, request.key), request, o, 0), request),
    request)

\* Converter::StartConversion
StartConversion(S, request, o) ==
  IF request.key = <<>> THEN CheckedConversion(Fail(S), request)
  ELSE CheckedConversion(
         Validated(ApplyConversion(SetKey(S, request.key), request, o, 0),
                   request),
         request)


\* Segment::candidate(0)
candidate0(seg) ==
  IF Len(seg.candidates) = 0 THEN GarbageCandidate ELSE seg.candidates[1]

\* Converter::CommitUsageStats: the counters emitted for segment_length
\* segments from absolute index begin_segment_index.
CommitUsageStats(S, begin_segment_index, segment_length) ==
  LET range == SubSeq(S.segs, begin_segment_index + 1,
                      begin_segment_index + segment_length)
      lens == [i \in 1..Len(range) |-> CharsLen(candidate0(range[i]).value)]
      submitted_total_length == SeqSum(lens)
  IN  IF segment_length = 0 THEN [stats |-> <<>>, ub |-> FALSE]
      ELSE IF begin_segment_index + segment_length > segments_size(S)
        THEN [stats |-> <<>>, ub |-> FALSE]
      ELSE [stats |->
              [i \in 1..Len(lens) |->
                 [name |-> "SubmittedSegmentLengthx1000",
                  value |-> lens[i] * 1000]]
              \o <<[name |-> "SubmittedLengthx1000",
                    value |-> submitted_total_length * 1000],
                   [name |-> "SubmittedSegmentNumberx1000",
                    value |-> segment_length * 1000],
                   [name |-> "SubmittedTotalLength",
                    value |-> submitted_total_length]>>,
            ub |-> \E i \in 1..Len(range) : Len(range[i].candidates) = 0]

RECURSIVE ExpandPosIds(_, _, _)
\* CompletePosIds, the expansion loop from budget `size` on.  rank is the
\* decoder's answer: the rank at which it lists the candidate's value
\* (0 when ConvertForRequest fails).
ExpandPosIds(candidate, size, rank) ==
  IF ~(size < kExpandSizeMax) THEN candidate
  ELSE IF rank = 0 THEN candidate
  ELSE IF rank <= size
    THEN [candidate EXCEPT !.lid = DecoderPosId, !.rid = DecoderPosId,
                           !.cost = DecoderPosId, !.wcost = DecoderPosId,
                           !.structure_cost = DecoderPosId]
  ELSE ExpandPosIds(candidate, size + kExpandSizeDiff, rank)

\* Converter::CompletePosIds
CompletePosIds(candidate, rank) ==
  IF candidate.value = <<>> \/ candidate.key = <<>> THEN candidate
  ELSE IF candidate.lid # 0 /\ candidate.rid # 0 THEN candidate
  ELSE ExpandPosIds([candidate EXCEPT !.lid = general_noun_id,
                                      !.rid = general_noun_id],
                    kExpandSizeStart, rank)

\* FinishConversion, the learning pass over all segments: SUBMITTED
\* becomes FIXED_VALUE, and the POS ids of each first candidate are
\* completed.
FixSegment(seg, rank) ==
  IF Len(seg.candidates) > 0
    THEN [seg EXCEPT
            !.segment_type = IF @ = "SUBMITTED" THEN "FIXED_VALUE" ELSE @,
            !.candidates[1] = CompletePosIds(@, rank)]
    ELSE [seg EXCEPT
            !.segment_type = IF @ = "SUBMITTED" THEN "FIXED_VALUE" ELSE @]

\* A faulty eviction: the newest segments are removed, from the back.
PopFrontSegments_FromBack(segs, max_history_segments_size) ==
  SubSeq(segs, 1, Len(segs) - Max(0, Len(segs) - max_history_segments_size))

\* A faulty eviction: one segment more than the maximum is kept.
PopFrontSegments_OneMore(segs, max_history_segments_size) ==
  SubSeq(segs, Max(0, Len(segs) - max_history_segments_size - 1) + 1,
         Len(segs))

\* A faulty eviction: nothing is removed from the front.
PopFrontSegments_KeepAll(segs, max_history_segments_size) == segs

\* FinishConversion, the eviction: segments are popped from the front
\* until at most max_history_segments_size are left.
PopFrontSegments(segs, max_history_segments_size) ==
  SubSeq(segs, Max(0, Len(segs) - max_history_segments_size) + 1, Len(segs))

\* A faulty FinishConversion: the Finish hooks are called before the revert
\* entries are cleared.
AtFinish_BeforeClear(S, fixed, us) ==
  [S |-> [S EXCEPT !.segs = fixed], stats |-> us.stats]

\* FinishConversion, the moment the Finish hooks are called: the buffer
\* they are handed (the segments after the learning pass, the revert
\* entries cleared) and the usage counters emitted by then.
AtFinish(S, fixed, us) ==
  [S |-> [S EXCEPT !.segs = fixed, !.revert_entries = 0], stats |-> us.stats]

\* FinishConversion from the Finish hooks on: at is the moment they are
\* called, revert the revert entries they record.  The front segments are
\* evicted and the segments that are left become HISTORY.  mid holds the
\* segments after the learning pass, what Rewriter::Finish is called with
\* and what Predictor::Finish is called with.
Evicted(at, us, revert) ==
  [Result([at.S EXCEPT
             !.segs = [i \in 1..Len(PopFrontSegments(
                                      at.S.segs,
                                      at.S.max_history_segments_size)) |->
                         [PopFrontSegments(
                            at.S.segs, at.S.max_history_segments_size)[i]
                            EXCEPT !.segment_type = "HISTORY"]],
             !.revert_entries = revert],
          TRUE, <<"Rewriter.Finish", "Predictor.Finish">>)
     EXCEPT !.stats = us.stats, !.ub = us.ub, !.mid = <<at.S.segs, at, at>>]

\* FinishConversion, the end.  fixed are the segments after the learning
\* pass, us the usage counters.
Finished(S, fixed, us, revert) == Evicted(AtFinish(S, fixed, us), us, revert)

\* Converter::FinishConversion.  o.rank is the decoder's answer to
\* CompletePosIds, o.learn whether the predictor records a revert entry
\* while it learns.
FinishConversion(S, request, o) ==
  Finished(S,
           [i \in 1..Len(S.segs) |-> FixSegment(S.segs[i], o.rank)],
           CommitUsageStats(S, history_segments_size(S),
                            conversion_segments_size(S)),
           IF o.learn THEN 1 ELSE 0)

\* Converter::CancelConversion
CancelConversion(S) == Result(clear_conversion_segments(S), TRUE, <<>>)

\* Converter::ResetConversion
ResetConversion(S) == Result(Clear(S), TRUE, <<>>)

\* A faulty revert: the revert entries are left in the buffer.
RevertConversion_KeepsEntries(S) ==
  IF S.revert_entries = 0 THEN Result(S, TRUE, <<>>)
  ELSE Result(S, TRUE, <<"Rewriter.Revert", "Predictor.Revert">>)

\* A faulty revert: the collaborators are called whether or not the buffer
\* holds revert entries.
RevertConversion_AlwaysCalls(S) ==
  Result([S EXCEPT !.revert_entries = 0], TRUE,
         <<"Rewriter.Revert", "Predictor.Revert">>)

\* Converter::RevertConversion
RevertConversion(S) ==
  IF S.revert_entries = 0 THEN Result(S, TRUE, <<>>)
  ELSE Result([S EXCEPT !.revert_entries = 0], TRUE,
              <<"Rewriter.Revert", "Predictor.Revert">>)

\* A faulty commit: the candidate that was moved is not marked RERANKED.
CommitSegmentValueInternal_NoRerank(S, segment_index, candidate_index, segment_type) ==
  LET index == GetSegmentIndex(S, segment_index)
      segment == S.segs[index + 1]
      values_size == Len(segment.candidates)
      moved == move_candidate([segment EXCEPT !.segment_type = segment_type],
                              candidate_index)
  IN  IF index = kErrorIndex THEN Result(S, FALSE, <<>>)
      ELSE IF candidate_index < -NUM_T13N_TYPES \/ candidate_index >= values_size
        THEN Result(S, FALSE, <<>>)
      ELSE [Result([S EXCEPT !.segs[index + 1] = moved], TRUE, <<>>)
              EXCEPT !.ub = candidate_index < 0
                            /\ Len(segment.meta_candidates) = 0,
                     !.addr = index]

\* Converter::CommitSegmentValueInternal
CommitSegmentValueInternal(S, segment_index, candidate_index, segment_type) ==
  LET index == GetSegmentIndex(S, segment_index)
      segment == S.segs[index + 1]
      values_size == Len(segment.candidates)
      moved == move_candidate([segment EXCEPT !.segment_type = segment_type],
                              candidate_index)
      marked == IF candidate_index # 0
                  THEN [moved EXCEPT !.candidates[1].attributes =
                          moved.candidates[1].attributes \cup {"RERANKED"}]
                  ELSE moved
  IN  IF index = kErrorIndex THEN Result(S, FALSE, <<>>)
      ELSE IF candidate_index < -NUM_T13N_TYPES \/ candidate_index >= values_size
        THEN Result(S, FALSE, <<>>)
      ELSE [Result([S EXCEPT !.segs[index + 1] = marked], TRUE, <<>>)
              EXCEPT !.ub = candidate_index < 0
                            /\ Len(segment.meta_candidates) = 0,
                     !.addr = index]

\* Converter::CommitSegmentValue
CommitSegmentValue(S, segment_index, candidate_index) ==
  CommitSegmentValueInternal(S, segment_index, candidate_index, "FIXED_VALUE")

\* The conversion of a size_t to int where CommitSegments passes
\* candidate_index[i] on: the upper half of the range becomes negative.
ToInt(x) == IF x >= SizeTMod \div 2 THEN x - SizeTMod ELSE x

RECURSIVE CommitEach_FixedValue(_, _)
\* A faulty loop: the sub-commits are made as FIXED_VALUE, so the committed
\* segment stays the first conversion segment.
CommitEach_FixedValue(S, candidate_index) ==
  IF candidate_index = <<>> THEN Result(S, TRUE, <<>>)
  ELSE LET r == CommitSegmentValueInternal(S, 0, ToInt(Head(candidate_index)),
                                           "FIXED_VALUE")
           rest == CommitEach_FixedValue(r.S, Tail(candidate_index))
       IN  IF ~r.ret THEN r
           ELSE [rest EXCEPT !.ub = r.ub \/ rest.ub,
                             !.mid = <<r.S>> \o rest.mid]

RECURSIVE CommitEach(_, _)
\* CommitSegments, the loop: the first conversion segment is submitted once
\* per entry of candidate_index; it stops at the first commit that fails.
\* mid lists the buffer after each sub-commit that succeeded.
CommitEach(S, candidate_index) ==
  IF candidate_index = <<>> THEN Result(S, TRUE, <<>>)
  ELSE LET r == CommitSegmentValueInternal(S, 0, ToInt(Head(candidate_index)),
                                           "SUBMITTED")
           rest == CommitEach(r.S, Tail(candidate_index))
       IN  IF ~r.ret THEN r
           ELSE [rest EXCEPT !.ub = r.ub \/ rest.ub,
                             !.mid = <<r.S>> \o rest.mid]

\* A faulty CommitSegments: the usage counters are emitted whether or not
\* the loop went through.
CommitSegments_CountsOnFailure(S, candidate_index) ==
  LET conversion_segment_index == history_segments_size(S)
      r == CommitEach(S, candidate_index)
      us == CommitUsageStats(r.S, conversion_segment_index,
                             Len(candidate_index))
  IN  [r EXCEPT !.stats = us.stats, !.ub = r.ub \/ us.ub]

\* Converter::CommitSegments
CommitSegments(S, candidate_index) ==
  LET conversion_segment_index == history_segments_size(S)
      r == CommitEach(S, candidate_index)
      us == CommitUsageStats(r.S, conversion_segment_index,
                             Len(candidate_index))
  IN  IF ~r.ret THEN r
      ELSE [r EXCEPT !.stats = us.stats, !.ub = r.ub \/ us.ub]

\* A faulty partial commit: the committed segment keeps its key.
CommitPartialSuggestionSegmentValue_KeepsKey(S, segment_index, candidate_index, current_segment_key, new_segment_key) ==
  LET raw_segment_index == GetSegmentIndex(S, segment_index)
      r == CommitSegmentValueInternal(S, segment_index, candidate_index,
                                      "SUBMITTED")
      us == CommitUsageStats(r.S, raw_segment_index, 1)
      grown == insert_segment(r.S.segs, raw_segment_index + 1,
                              [NewSegment EXCEPT !.key = new_segment_key])
  IN  IF ~r.ret THEN [r EXCEPT !.dcheck = conversion_segments_size(S) > 0]
      ELSE [r EXCEPT
              !.S.segs = grown,
              !.stats = us.stats \o <<[name |-> "CommitPartialSuggestion",
                                       value |-> 1]>>,
              !.ub = r.ub \/ us.ub,
              !.dcheck = conversion_segments_size(S) > 0]

\* Converter::CommitPartialSuggestionSegmentValue
CommitPartialSuggestionSegmentValue(S, segment_index, candidate_index, current_segment_key, new_segment_key) ==
  LET raw_segment_index == GetSegmentIndex(S, segment_index)
      r == CommitSegmentValueInternal(S, segment_index, candidate_index,
                                      "SUBMITTED")
      us == CommitUsageStats(r.S, raw_segment_index, 1)
      segment == r.S.segs[raw_segment_index + 1]
      auto_partial_suggestion ==
        CharsLen(candidate0(segment).key) # CharsLen(segment.key)
      rekeyed == [r.S.segs EXCEPT ![raw_segment_index + 1].key =
                                    current_segment_key]
      grown == insert_segment(rekeyed, raw_segment_index + 1,
                              [NewSegment EXCEPT !.key = new_segment_key])
  IN  IF ~r.ret THEN [r EXCEPT !.dcheck = conversion_segments_size(S) > 0]
      ELSE [r EXCEPT
              !.S.segs = grown,
              !.stats = us.stats
                        \o <<[name |-> IF auto_partial_suggestion
                                         THEN "CommitAutoPartialSuggestion"
                                         ELSE "CommitPartialSuggestion",
                              value |-> 1]>>,
              !.ub = r.ub \/ us.ub,
              !.dcheck = conversion_segments_size(S) > 0
                         /\ Len(grown) - HistoryPrefix(grown) > 0]

\* Converter::FocusSegmentValue; o.focus is the answer of Rewriter::Focus.
FocusSegmentValue(S, segment_index, candidate_index, o) ==
  LET index == GetSegmentIndex(S, segment_index)
  IN  IF index = kErrorIndex THEN Result(S, FALSE, <<>>)
      ELSE [Result(S, o.focus, <<"Rewriter.Focus">>) EXCEPT !.addr = index]

\* ValidateConversionRequestForPrediction (evaluated in a DCHECK only).
ValidateConversionRequestForPrediction(request) ==
  IF request.request_type = "CONVERSION" THEN FALSE
  ELSE IF request.request_type \in {"PREDICTION", "SUGGESTION"} THEN TRUE
  ELSE request.cursor # 0 \/ request.cursor # request.length

\* A variant that overwrites the size a flagged candidate carries.
MaybeSetConsumedKeySizeToCandidate_Overwrites(consumed_key_size, candidate) ==
  [candidate EXCEPT
     !.attributes = candidate.attributes \cup {"PARTIALLY_KEY_CONSUMED"},
     !.consumed_key_size = consumed_key_size]

\* Converter::MaybeSetConsumedKeySizeToCandidate
MaybeSetConsumedKeySizeToCandidate(consumed_key_size, candidate) ==
  IF "PARTIALLY_KEY_CONSUMED" \in candidate.attributes THEN candidate
  ELSE [candidate EXCEPT
          !.attributes = candidate.attributes \cup {"PARTIALLY_KEY_CONSUMED"},
          !.consumed_key_size = consumed_key_size]

\* Converter::MaybeSetConsumedKeySizeToSegment
MaybeSetConsumedKeySizeToSegment(consumed_key_size, segment) ==
  [segment EXCEPT
     !.candidates =
       [i \in 1..Len(segment.candidates) |->
          MaybeSetConsumedKeySizeToCandidate(consumed_key_size,
                                             segment.candidates[i])],
     !.meta_candidates =
       [i \in 1..Len(segment.meta_candidates) |->
          MaybeSetConsumedKeySizeToCandidate(consumed_key_size,
                                             segment.meta_candidates[i])]]

\* StartPrediction, the marking of partial candidates: for a partial
\* request every candidate of the first conversion segment of t is marked.
MarkPartial(t, request) ==
  IF request.request_type \in {"PARTIAL_SUGGESTION", "PARTIAL_PREDICTION"}
    THEN [t EXCEPT !.segs[history_segments_size(t) + 1] =
            MaybeSetConsumedKeySizeToSegment(CharsLen(request.key), @)]
    ELSE t

\* StartPrediction, the end, given the result r of the rewrite step.
Predicted(r, request, dchecks) ==
  [r EXCEPT
     !.S = MarkPartial(TrimCandidates(request, @), request),
     !.ret = IsValidSegments(request,
                             MarkPartial(TrimCandidates(request, r.S), request)),
     !.calls = <<"PredictForRequest">> \o @ \o <<"Trim">>,
     !.dcheck = dchecks,
     !.mid = <<TrimCandidates(request, r.S)>>]

\* StartPrediction on the buffer as it is after the key was (or was not)
\* reset; mid is that buffer, the one the predictor is called on.
PredictKeyed(keyed, request, o) ==
  [Predicted(
     RewriteAndSuppressCandidates(
       PredictForRequest(keyed, o.predict, o.consumed), request, o, 0),
     request,
     /\ ValidateConversionRequestForPrediction(request)
     /\ conversion_segments_size(keyed) = 1
     /\ conversion_segment(keyed, 0).key = request.key)
   EXCEPT !.mid = <<keyed>> \o @]

\* Converter::StartPrediction; o.predict is the number of predictions the
\* predictor has for the key (it returns false when it has none).
StartPrediction(S, request, o) ==
  PredictKeyed(IF ShouldSetKeyForPrediction(request.key, S)
                 THEN SetKey(S, request.key) ELSE S,
               request, o)

\* ReverseConverter::ReverseConvert (converter/reverse_converter.h): on
\* success every conversion segment holds a candidate.
ReverseConvert(S, ok) ==
  LET h == history_segments_size(S)
  IN  IF ~ok THEN S
      ELSE [S EXCEPT !.segs =
              [i \in 1..Len(S.segs) |->
                 IF i > h
                   THEN [S.segs[i] EXCEPT !.candidates =
                           <<DecoderCandidate(S.segs[i].key, 1)>>]
                   ELSE S.segs[i]]]

\* Converter::StartReverseConversion; o.reverse is the reverse converter's
\* result.
StartReverseConversion(S, key, o) ==
  IF key = <<>> THEN Result(Clear(S), FALSE, <<>>)
  ELSE Result(ReverseConvert(SetKey(Clear(S), key), o.reverse), o.reverse,
              <<"ReverseConvert">>)

\* HistoryReconstructor::ReconstructHistory: on success one HISTORY segment
\* with one candidate made from the trailing part of the preceding text.
ReconstructHistory(S, preceding_text, o) ==
  IF ~o.reconstruct
    THEN Result(Clear(S), FALSE, <<"HistoryReconstructor.ReconstructHistory">>)
    ELSE Result([Clear(S) EXCEPT !.segs =
                   <<[NewSegment EXCEPT
                        !.key = preceding_text,
                        !.segment_type = "HISTORY",
                        !.candidates =
                          <<Candidate(preceding_text, preceding_text,
                                      general_noun_id)>>]>>],
                TRUE, <<"HistoryReconstructor.ReconstructHistory">>)

\* Converter::DeleteCandidateFromHistory: segment_index is used as an
\* absolute index into the buffer.  o.rewriter_clear and o.predictor_clear
\* are the answers of the two ClearHistoryEntry calls.
DeleteCandidateFromHistory(S, segment_index, candidate_index, o) ==
  [Result(S, o.rewriter_clear \/ o.predictor_clear,
          <<"Rewriter.ClearHistoryEntry", "Predictor.ClearHistoryEntry">>)
     EXCEPT !.addr = segment_index,
            !.dcheck = segment_index < segments_size(S),
            !.ub = \/ segment_index >= segments_size(S)
                   \/ candidate_index >= Len(S.segs[segment_index + 1].candidates)
                   \/ candidate_index < 0
                      /\ Len(S.segs[segment_index + 1].meta_candidates) = 0]

(***************************************************************************)
(* ConversionRequest and ConversionRequestBuilder.                         *)
(***************************************************************************)
\* ConversionRequest::Options, the fields that decide the key.
DefaultOptions ==
  [request_type |-> "CONVERSION", composer_key_selection |-> "CONVERSION_KEY",
   key |-> <<>>]

\* composer::ComposerData: the composition as the user sees it, the
\* composition without the trailing unresolved input, and the cursor.
ComposerData(conversion, prediction, cursor) ==
  [conversion |-> conversion, prediction |-> prediction, cursor |-> cursor]

\* config::Config: the two tables TrimConfig clears, and the rest.
Config(keymap, roman, rest) ==
  [custom_keymap_table |-> keymap, custom_roman_table |-> roman,
   rest |-> rest]

\* ConversionRequest::TrimConfig
TrimConfig(base_config) ==
  [base_config EXCEPT !.custom_keymap_table = <<>>,
                      !.custom_roman_table = <<>>]

\* ConversionRequest::GetKey
GetKey(composer, type, selection) ==
  IF type = "CONVERSION" /\ selection = "CONVERSION_KEY"
    THEN composer.conversion
  ELSE IF \/ type = "CONVERSION" /\ selection = "PREDICTION_KEY"
          \/ type = "PREDICTION"
          \/ type = "SUGGESTION"
    THEN composer.prediction
  ELSE IF type = "PARTIAL_PREDICTION" \/ type = "PARTIAL_SUGGESTION"
    THEN Utf8SubString(composer.conversion, 0, composer.cursor)
  ELSE <<>>

\* A faulty constructor that derives the key although one was given.
ConversionRequest_AlwaysDerives(composer, request, context, config, options) ==
  [composer |-> composer, request |-> request, context |-> context,
   config |-> TrimConfig(config),
   options |-> [options EXCEPT
                  !.key = GetKey(composer, options.request_type,
                                 options.composer_key_selection)]]

\* ConversionRequest::ConversionRequest(composer, request, context, config,
\* options)
ConversionRequest(composer, request, context, config, options) ==
  [composer |-> composer, request |-> request, context |-> context,
   config |-> TrimConfig(config),
   options |-> IF options.key = <<>>
                 THEN [options EXCEPT
                         !.key = GetKey(composer, options.request_type,
                                        options.composer_key_selection)]
                 ELSE options]

\* ConversionRequestBuilder, as constructed.
NewBuilder ==
  [stage |-> 0, composer_data |-> ComposerData(<<>>, <<>>, 0),
   request |-> <<>>, context |-> <<>>, config |-> Config(<<>>, <<>>, <<>>),
   options |-> DefaultOptions]

\* A faulty stage table: SetOptions is accepted as late as SetKey.
StageLimit_OptionsLate(name) ==
  CASE name = "SetConversionRequest" -> 1
    [] name \in {"SetComposerData", "SetComposer", "SetRequest", "SetContext",
                 "SetConfig"} -> 2
    [] OTHER -> 3

\* The largest stage at which the assertion of a builder call holds.
StageLimit(name) ==
  CASE name = "SetConversionRequest" -> 1
    [] name \in {"SetComposerData", "SetComposer", "SetRequest", "SetContext",
                 "SetConfig", "SetOptions"} -> 2
    [] OTHER -> 3

\* The stage a builder call sets.
StageAfter(name) ==
  CASE name = "SetConversionRequest" -> 1
    [] name \in {"SetComposerData", "SetComposer", "SetRequest", "SetContext",
                 "SetConfig", "SetOptions"} -> 2
    [] name \in {"SetRequestType", "SetKey"} -> 3
    [] OTHER -> 100

\* The builder b after call c (its name and argument) has run.
Called(b, c) ==
  CASE c.name = "SetConversionRequest" ->
         [b EXCEPT !.stage = StageAfter(c.name),
                   !.composer_data = c.arg.composer,
                   !.request = c.arg.request, !.context = c.arg.context,
                   !.config = c.arg.config, !.options = c.arg.options]
    [] c.name \in {"SetComposerData", "SetComposer"} ->
         [b EXCEPT !.stage = StageAfter(c.name), !.composer_data = c.arg]
    [] c.name = "SetRequest" ->
         [b EXCEPT !.stage = StageAfter(c.name), !.request = c.arg]
    [] c.name = "SetContext" ->
         [b EXCEPT !.stage = StageAfter(c.name), !.context = c.arg]
    [] c.name = "SetConfig" ->
         [b EXCEPT !.stage = StageAfter(c.name), !.config = c.arg]
    [] c.name = "SetOptions" ->
         [b EXCEPT !.stage = StageAfter(c.name), !.options = c.arg]
    [] c.name = "SetRequestType" ->
         [b EXCEPT !.stage = StageAfter(c.name),
                   !.options.request_type = c.arg]
    [] c.name = "SetKey" ->
         [b EXCEPT !.stage = StageAfter(c.name), !.options.key = c.arg]
    [] OTHER -> [b EXCEPT !.stage = StageAfter(c.name)]

\* ConversionRequestBuilder::Build, the request it returns.  The
\* constructor takes its arguments by reference and copies them: the
\* members of the builder keep their values.
Build(b) ==
  ConversionRequest(b.composer_data, b.request, b.context, b.config,
                    b.options)

\* A builder in use: the object b; the object as it was before the last
\* call; that call and whether its assertion held; whether every assertion
\* so far held; the requests built; the last arguments of SetRequestType
\* and of SetKey; the number of calls.
NewBuilderState ==
  [b |-> NewBuilder, was |-> NewBuilder, call |-> [name |-> "none"],
   ok |-> TRUE, clean |-> TRUE, built |-> <<>>, typed |-> <<>>,
   keyed |-> <<>>, n |-> 0]

(***************************************************************************)
(* State.                                                                  *)
(***************************************************************************)
VARIABLES
  segments,  \* the session's Segments buffer
  before,    \* the buffer as it was when the last operation was called
  op,        \* the last public operation applied to it, with its arguments
  out,       \* what that operation returned, called and emitted
  finished,  \* whether FinishConversion has returned on this buffer
  crashed,   \* whether the process died (undefined behaviour, failed DCHECK)
  nops,      \* number of public operations applied so far
  committed, \* the buffer and arguments of the CommitSegmentValue that
             \* succeeded just before, with at most a RevertConversion since
  sessions,  \* the sessions that share the converter: for each its own
             \* buffer, the call it has in flight and the calls it completed
  builder    \* a ConversionRequestBuilder in use

vars == <<segments, before, op, out, finished, crashed, nops, committed, sessions, builder>>

\* ConversionRequest: the fields the orchestrator reads.  mobile stands for
\* request().zero_query_suggestion() && request().mixed_conversion(),
\* limit < 0 for a request without candidates_size_limit.
Request(type, key, mobile, limit, cursor, length) ==
  [request_type |-> type, key |-> key, mobile |-> mobile, limit |-> limit,
   cursor |-> cursor, length |-> length]

NoRequest == Request("NONE", <<>>, FALSE, -1, 0, 0)

\* The answers of the collaborators during one operation; an operation
\* reads only the answers of the collaborators it calls.
Oracle(conv, resize, rewrite, suppress) ==
  [conv |-> conv, resize |-> resize, rewrite |-> rewrite,
   suppress |-> suppress, predict |-> 0, consumed |-> 0, rank |-> 1,
   learn |-> FALSE,
   focus |-> TRUE, reverse |-> TRUE, reconstruct |-> TRUE,
   rewriter_clear |-> TRUE, predictor_clear |-> TRUE]

\* The sessions that share one Converter.
Sessions == {1, 2}

\* The record of an operation; the fields an operation does not take keep
\* the values given here; oracle holds the answers the collaborators gave
\* during the operation.
NoOp ==
  [name |-> "Init", request |-> NoRequest, segment_index |-> 0,
   candidate_index |-> 0, indices |-> <<>>, sizes |-> <<>>, offset |-> 0,
   key |-> <<>>, new_key |-> <<>>,
   oracle |-> Oracle([n |-> 0, short |-> FALSE, ret |-> FALSE], <<>>, "true",
                     FALSE)]

Init ==
  /\ segments = NewSegments
  /\ before = NewSegments
  /\ op = NoOp
  /\ out = [ret |-> TRUE, calls |-> <<>>, stats |-> <<>>, ub |-> FALSE,
            dcheck |-> TRUE, mid |-> <<>>, depth |-> 0, addr |-> NoAddr]
  /\ finished = FALSE
  /\ crashed = FALSE
  /\ nops = 0
  /\ committed = <<>>
  /\ sessions = [s \in Sessions |->
                   [buf |-> NewSegments, pc |-> "idle", call |-> NoOp,
                    log |-> <<>>]]
  /\ builder = NewBuilderState

\* The operation o, whose handler computed r, is applied to the buffer.
\* When the handler met undefined behaviour or a failed DCHECK the process
\* may also die instead.
Apply(o, r) ==
  /\ UNCHANGED <<sessions, builder>>
  /\ nops' = nops + 1
  /\ before' = segments
  /\ op' = o
  /\ out' = [ret |-> r.ret, calls |-> r.calls, stats |-> r.stats,
             ub |-> r.ub, dcheck |-> r.dcheck, mid |-> r.mid,
             depth |-> r.depth, addr |-> r.addr]
  /\ \/ /\ segments' = r.S
        /\ crashed' = FALSE
        /\ finished' = (finished \/ o.name = "FinishConversion")
        /\ committed' =
             IF o.name = "CommitSegmentValue" /\ r.ret
               THEN <<[S |-> segments, segment_index |-> o.segment_index,
                       candidate_index |-> o.candidate_index]>>
             ELSE IF o.name = "RevertConversion" THEN committed
             ELSE <<>>
     \/ /\ r.ub \/ ~r.dcheck
        /\ segments' = segments
        /\ crashed' = TRUE
        /\ finished' = finished
        /\ committed' = committed

\* The caller has taken the result of the last operation: the buffer is
\* ready for the next one.
Return ==
  /\ ~crashed
  /\ op.name # "Init"
  /\ op' = NoOp
  /\ out' = [ret |-> TRUE, calls |-> <<>>, stats |-> <<>>, ub |-> FALSE,
             dcheck |-> TRUE, mid |-> <<>>, depth |-> 0, addr |-> NoAddr]
  /\ before' = segments
  /\ UNCHANGED <<segments, finished, crashed, nops, committed, sessions,
                 builder>>

\* An operation starts only on a buffer whose last result has been taken,
\* in a process that is alive; at most bound operations are explored.
Ready(bound) == op.name = "Init" /\ ~crashed /\ nops < bound

(***************************************************************************)
(* Operations, over given sets of arguments and collaborator answers.      *)
(***************************************************************************)
StartConversionOp(Requests, Oracles, bound) ==
  \E request \in Requests, o \in Oracles :
    /\ Ready(bound)
    /\ \E r \in {StartConversion(segments, request, o)} :
         Apply([NoOp EXCEPT !.oracle = o, !.name = "StartConversion",
                            !.request = request], r)

StartPredictionOp(Requests, Oracles, bound) ==
  \E request \in Requests, o \in Oracles :
    /\ Ready(bound)
    /\ \E r \in {StartPrediction(segments, request, o)} :
         Apply([NoOp EXCEPT !.oracle = o, !.name = "StartPrediction",
                            !.request = request], r)

StartReverseConversionOp(Keys, Oracles, bound) ==
  \E key \in Keys, o \in Oracles :
    /\ Ready(bound)
    /\ \E r \in {StartReverseConversion(segments, key, o)} :
         Apply([NoOp EXCEPT !.oracle = o, !.name = "StartReverseConversion",
                            !.key = key], r)

FinishConversionOp(Requests, Oracles, bound) ==
  \E request \in Requests, o \in Oracles :
    /\ Ready(bound)
    /\ \E r \in {FinishConversion(segments, request, o)} :
         Apply([NoOp EXCEPT !.oracle = o, !.name = "FinishConversion",
                            !.request = request], r)

CancelConversionOp(bound) ==
  /\ Ready(bound)
  /\ \E r \in {CancelConversion(segments)} :
       Apply([NoOp EXCEPT !.name = "CancelConversion"], r)

ResetConversionOp(bound) ==
  /\ Ready(bound)
  /\ \E r \in {ResetConversion(segments)} :
       Apply([NoOp EXCEPT !.name = "ResetConversion"], r)

RevertConversionOp(bound) ==
  /\ Ready(bound)
  /\ \E r \in {RevertConversion(segments)} :
       Apply([NoOp EXCEPT !.name = "RevertConversion"], r)

ReconstructHistoryOp(Texts, Oracles, bound) ==
  \E text \in Texts, o \in Oracles :
    /\ Ready(bound)
    /\ \E r \in {ReconstructHistory(segments, text, o)} :
         Apply([NoOp EXCEPT !.oracle = o, !.name = "ReconstructHistory",
                            !.key = text], r)

DeleteCandidateFromHistoryOp(Indices, Cands, Oracles, bound) ==
  \E i \in Indices, c \in Cands, o \in Oracles :
    /\ Ready(bound)
    /\ \E r \in {DeleteCandidateFromHistory(segments, i, c, o)} :
         Apply([NoOp EXCEPT !.oracle = o, !.name = "DeleteCandidateFromHistory",
                            !.segment_index = i, !.candidate_index = c], r)

CommitSegmentValueOp(Indices, Cands, bound) ==
  \E i \in Indices, c \in Cands :
    /\ Ready(bound)
    /\ \E r \in {CommitSegmentValue(segments, i, c)} :
         Apply([NoOp EXCEPT !.name = "CommitSegmentValue",
                            !.segment_index = i, !.candidate_index = c], r)

CommitPartialSuggestionSegmentValueOp(Indices, Cands, Keys, NewKeys, bound) ==
  \E i \in Indices, c \in Cands, k \in Keys, n \in NewKeys :
    /\ Ready(bound)
    /\ \E r \in {CommitPartialSuggestionSegmentValue(segments, i, c, k, n)} :
         Apply([NoOp EXCEPT !.name = "CommitPartialSuggestionSegmentValue",
                            !.segment_index = i, !.candidate_index = c,
                            !.key = k, !.new_key = n], r)

FocusSegmentValueOp(Indices, Cands, Oracles, bound) ==
  \E i \in Indices, c \in Cands, o \in Oracles :
    /\ Ready(bound)
    /\ \E r \in {FocusSegmentValue(segments, i, c, o)} :
         Apply([NoOp EXCEPT !.oracle = o, !.name = "FocusSegmentValue",
                            !.segment_index = i, !.candidate_index = c], r)

CommitSegmentsOp(Lists, bound) ==
  \E l \in Lists :
    /\ Ready(bound)
    /\ \E r \in {CommitSegments(segments, l)} :
         Apply([NoOp EXCEPT !.name = "CommitSegments", !.indices = l], r)

ResizeSegmentOp(Requests, Indices, Offsets, Oracles, bound) ==
  \E request \in Requests, i \in Indices, d \in Offsets, o \in Oracles :
    /\ Ready(bound)
    /\ \E r \in {ResizeSegment(segments, request, i, d, o)} :
         Apply([NoOp EXCEPT !.oracle = o, !.name = "ResizeSegment",
                            !.request = request,
                            !.segment_index = i, !.offset = d], r)

ResizeSegmentsOp(Requests, Indices, Sizes, Oracles, bound) ==
  \E request \in Requests, i \in Indices, s \in Sizes, o \in Oracles :
    /\ Ready(bound)
    /\ \E r \in {ResizeSegments(segments, request, i, s, o, 0)} :
         Apply([NoOp EXCEPT !.oracle = o, !.name = "ResizeSegments",
                            !.request = request,
                            !.segment_index = i, !.sizes = s], r)

(***************************************************************************)
(* Arguments and collaborator answers explored by Spec.                    *)
(***************************************************************************)
\* Decoder behaviours: candidates per segment, and the value it returns.
\* A short decoder knows single-codepoint readings only.
ConvNone == [n |-> 0, short |-> FALSE, ret |-> FALSE]
ConvOne == [n |-> 1, short |-> FALSE, ret |-> TRUE]
ConvMany == [n |-> MaxCands, short |-> FALSE, ret |-> TRUE]
ConvShort == [n |-> 1, short |-> TRUE, ret |-> FALSE]

\* Resize requests of the rewriter: pin one codepoint at the first
\* conversion segment; a request with sizes that sum to 0; pin two
\* codepoints at the first conversion segment.
PinFirst == [segment_index |-> 0, segment_sizes |-> <<1>>]
BadResize == [segment_index |-> 0, segment_sizes |-> <<0>>]
PinTwo == [segment_index |-> 0, segment_sizes |-> <<2>>]

\* The rewriter asks for PinFirst on each of its first n calls.
PinTimes(n) == [i \in 1..n |-> PinFirst]

\* The collaborators of the toy configuration: the decoder yields one
\* candidate per segment, the rewriter changes nothing, no blocked entry.
ToyOracle == Oracle(ConvOne, <<>>, "true", FALSE)

ConvOracles ==
  {Oracle(c, <<>>, "true", FALSE) : c \in {ConvNone, ConvOne, ConvMany, ConvShort}}
  \cup {Oracle(ConvNone, <<>>, "add", FALSE),
        Oracle(ConvNone, <<>>, "meta", FALSE),
        Oracle(ConvOne, <<>>, "true", TRUE),
        Oracle(ConvOne, <<>>, "false", TRUE),
        Oracle(ConvMany, <<>>, "add", TRUE),
        Oracle(ConvMany, <<>>, "meta", FALSE),
        Oracle(ConvOne, <<BadResize>>, "true", FALSE),
        Oracle(ConvOne, <<PinTwo>>, "true", FALSE),
        Oracle(ConvMany, <<PinFirst>>, "add", TRUE),
        Oracle(ConvOne, <<PinFirst, BadResize>>, "true", FALSE)}
  \cup {Oracle(ConvMany, PinTimes(n), "true", FALSE) : n \in 1..MaxResizeAnswers}

ResizeOracles ==
  {ToyOracle, Oracle(ConvNone, <<>>, "true", FALSE),
   Oracle(ConvMany, <<>>, "add", FALSE),
   Oracle(ConvOne, PinTimes(1), "true", FALSE)}

PredictOracles ==
  {[x EXCEPT !.predict = n] :
     n \in 0..2,
     x \in {ToyOracle, Oracle(ConvOne, <<>>, "add", TRUE),
            Oracle(ConvOne, PinTimes(1), "true", FALSE)}}
  \cup {[ToyOracle EXCEPT !.predict = 2, !.consumed = 1],
        [Oracle(ConvOne, <<>>, "meta", FALSE) EXCEPT !.predict = 0],
        [Oracle(ConvOne, <<>>, "false", TRUE) EXCEPT !.predict = 1]}

FinishOracles ==
  {[ToyOracle EXCEPT !.rank = r, !.learn = l] :
     r \in {0, 1, 30, 70}, l \in BOOLEAN}

AnswerOracles ==
  {[ToyOracle EXCEPT !.focus = b, !.reverse = b, !.reconstruct = b,
                     !.rewriter_clear = b, !.predictor_clear = c] :
     b \in BOOLEAN, c \in BOOLEAN}

Desktop(type, key) == Request(type, key, FALSE, -1, 0, 0)
Mobile(type, key) == Request(type, key, TRUE, 2, 0, 0)

ConvRequests ==
  {Desktop("CONVERSION", k) : k \in {KeyEmpty, KeyAI, KeyAI1}}
  \cup {Mobile("CONVERSION", k) : k \in {KeyAI, KeyAI1}}

PredictRequests ==
  {Desktop("PREDICTION", k) : k \in {KeyEmpty, KeyA, KeyAI}}
  \cup {Mobile("SUGGESTION", k) : k \in {KeyEmpty, KeyA}}
  \cup {Request("PARTIAL_PREDICTION", KeyA, FALSE, -1, c, 2) : c \in 0..2}
  \cup {Request("PARTIAL_SUGGESTION", KeyA, FALSE, -1, 1, 2),
        Request("PARTIAL_PREDICTION", KeyAI, FALSE, -1, 2, 3)}

ResizeRequests == {Desktop("CONVERSION", KeyAI1)}
OtherResizeRequests ==
  {Mobile("CONVERSION", KeyAI1), Desktop("PREDICTION", KeyAI1)}

FinishRequests == {Desktop("CONVERSION", KeyAI1)}

SegmentIndices == {0, 1, kErrorIndex}
CandidateIndices == {-NUM_T13N_TYPES - 1, -1, 0, 1, 2, MaxCands + 1}
SizeArrays == {<<>>, <<0>>, <<1>>, <<2>>, <<1, 1>>, <<1, 0, 1>>, <<4>>}
Offsets == {-3, -2, -1, 0, 1, 2, kUint8Max}
CommitLists ==
  {<<>>, <<0>>, <<1>>, <<0, 0>>, <<0, 1>>, <<0, MaxCands>>, <<0, 0, 0>>,
   <<kErrorIndex>>}

Next ==
  \/ StartConversionOp({r \in ConvRequests : ~r.mobile}, ConvOracles, MaxOps)
  \/ StartConversionOp({r \in ConvRequests : r.mobile},
                       {ToyOracle, Oracle(ConvNone, <<>>, "meta", FALSE),
                        Oracle(ConvMany, <<>>, "true", FALSE),
                        Oracle(ConvMany, <<>>, "add", TRUE)}, MaxOps)
  \/ StartPredictionOp(PredictRequests,
                       {o \in PredictOracles : o.rewrite = "true" /\ o.resize = <<>>},
                       MaxOps)
  \/ StartPredictionOp({Desktop("PREDICTION", KeyA), Mobile("SUGGESTION", KeyA),
                        Request("PARTIAL_PREDICTION", KeyAI, FALSE, -1, 2, 3)},
                       {o \in PredictOracles : o.rewrite # "true" \/ o.resize # <<>>},
                       MaxOps)
  \/ StartReverseConversionOp({KeyEmpty, KeyAI}, AnswerOracles, MaxOps)
  \/ FinishConversionOp(FinishRequests, FinishOracles, MaxOps)
  \/ CancelConversionOp(MaxOps)
  \/ ResetConversionOp(MaxOps)
  \/ RevertConversionOp(MaxOps)
  \/ ReconstructHistoryOp({KeyA}, AnswerOracles, MaxOps)
  \/ DeleteCandidateFromHistoryOp({0, 1}, {0, 1}, AnswerOracles, MaxOps)
  \/ CommitSegmentValueOp(SegmentIndices, CandidateIndices, MaxOps)
  \/ CommitPartialSuggestionSegmentValueOp({0, 1, kErrorIndex}, {0, 1},
                                           {KeyEmpty, KeyA}, {KeyEmpty, KeyI},
                                           MaxOps)
  \/ FocusSegmentValueOp(SegmentIndices, {0}, AnswerOracles, MaxOps)
  \/ CommitSegmentsOp(CommitLists, MaxOps)
  \/ ResizeSegmentOp(ResizeRequests, SegmentIndices, Offsets,
                     {ToyOracle, Oracle(ConvOne, PinTimes(1), "true", FALSE)},
                     MaxOps)
  \/ ResizeSegmentOp(OtherResizeRequests, {0}, {-1, 1}, {ToyOracle}, MaxOps)
  \/ ResizeSegmentsOp(ResizeRequests, SegmentIndices, SizeArrays,
                      {ToyOracle, Oracle(ConvOne, PinTimes(1), "true", FALSE)},
                      MaxOps)
  \/ ResizeSegmentsOp(ResizeRequests, {0}, {<<1>>, <<2>>, <<1, 1>>},
                      ResizeOracles, MaxOps)
  \/ ResizeSegmentsOp(OtherResizeRequests, {0}, {<<1>>, <<1, 1>>},
                      {ToyOracle}, MaxOps)
  \/ Return

Spec == Init /\ [][Next]_vars

(***************************************************************************)
(* A narrower and deeper exploration: one desktop session that converts,   *)
(* resizes, commits and finishes, up to MaxDeepOps operations.             *)
(***************************************************************************)
Key5 == KeyAI1 \o KeyAI

DeepRequest == Desktop("CONVERSION", KeyAI)
DeepOracles ==
  {ToyOracle, Oracle(ConvNone, <<>>, "true", FALSE),
   Oracle(ConvMany, <<>>, "true", FALSE),
   Oracle(ConvMany, <<>>, "add", TRUE),
   Oracle(ConvOne, <<>>, "false", TRUE)}

NextDeep ==
  \/ StartConversionOp({DeepRequest, Desktop("CONVERSION", Key5)},
                       DeepOracles, MaxDeepOps)
  \/ FinishConversionOp({DeepRequest},
                        {ToyOracle, [ToyOracle EXCEPT !.learn = TRUE]},
                        MaxDeepOps)
  \/ CancelConversionOp(MaxDeepOps)
  \/ RevertConversionOp(MaxDeepOps)
  \/ CommitSegmentValueOp({0, 1}, {0, 2}, MaxDeepOps)
  \/ CommitPartialSuggestionSegmentValueOp({0, 1}, {0}, {KeyA}, {KeyEmpty},
                                           MaxDeepOps)
  \/ CommitSegmentsOp({<<>>, <<0>>, <<0, 0>>, <<0, 1>>, <<1, 0>>,
                       <<0, 0, 0, 0, 0>>}, MaxDeepOps)
  \/ ResizeSegmentOp({DeepRequest, Desktop("PREDICTION", KeyAI)}, {0, 1},
                     {-1, 0, 1, kUint8Max}, {ToyOracle}, MaxDeepOps)
  \/ ResizeSegmentsOp({DeepRequest}, {0}, {<<1>>, <<1, 1, 1, 1, 1>>},
                      {ToyOracle, Oracle(ConvMany, <<>>, "true", FALSE)},
                      MaxDeepOps)
  \/ Return

SpecDeep == Init /\ [][NextDeep]_vars

(***************************************************************************)
(* Several sessions on one Converter.  Every public operation is a const   *)
(* member function that takes the session's Segments by pointer; the       *)
(* members of the Converter are set in the constructor and not written     *)
(* afterwards.  A call is in flight from SessionCall to SessionReturn, and *)
(* the calls of different sessions overlap freely.                         *)
(***************************************************************************)
\* Largest number of calls one session makes.
MaxSessionOps == 2

\* The public operation of call c, on the buffer S the call carries.
Handle(c, S) ==
  CASE c.name = "StartConversion" -> StartConversion(S, c.request, c.oracle)
    [] c.name = "StartPrediction" -> StartPrediction(S, c.request, c.oracle)
    [] c.name = "FinishConversion" -> FinishConversion(S, c.request, c.oracle)
    [] c.name = "CancelConversion" -> CancelConversion(S)
    [] c.name = "CommitSegmentValue" ->
         CommitSegmentValue(S, c.segment_index, c.candidate_index)
    [] c.name = "ResizeSegment" ->
         ResizeSegment(S, c.request, c.segment_index, c.offset, c.oracle)
    [] c.name = "ResizeSegments" ->
         ResizeSegments(S, c.request, c.segment_index, c.sizes, c.oracle, 0)
    [] OTHER -> Result(S, TRUE, <<>>)

\* The calls the sessions make.
SessionCalls ==
  {[NoOp EXCEPT !.name = "StartConversion",
                !.request = Desktop("CONVERSION", KeyAI),
                !.oracle = Oracle(ConvMany, <<>>, "true", FALSE)],
   [NoOp EXCEPT !.name = "CommitSegmentValue", !.candidate_index = 1],
   [NoOp EXCEPT !.name = "CommitSegmentValue", !.candidate_index = -1],
   [NoOp EXCEPT !.name = "ResizeSegment",
                !.request = Desktop("CONVERSION", KeyAI),
                !.offset = -1, !.oracle = ToyOracle],
   [NoOp EXCEPT !.name = "FinishConversion",
                !.request = Desktop("CONVERSION", KeyAI),
                !.oracle = ToyOracle]}

\* A faulty converter that keeps the buffer of the call in a member: what
\* a call leaves shows in the buffer of every session.
Returned_Shared(ss, s, r) ==
  [t \in Sessions |->
     IF t = s THEN [ss[s] EXCEPT !.buf = r.S, !.pc = "idle",
                                 !.log = Append(@, ss[s].call)]
     ELSE [ss[t] EXCEPT !.buf = r.S]]

\* The call of session s returns with result r: the buffer the call
\* carried holds what the operation left.
Returned(ss, s, r) ==
  [ss EXCEPT ![s].buf = r.S, ![s].pc = "idle",
             ![s].log = Append(@, ss[s].call)]

\* Session s calls a public operation on its buffer.
SessionCall(s) ==
  /\ ~crashed
  /\ sessions[s].pc = "idle"
  /\ Len(sessions[s].log) < MaxSessionOps
  /\ \E c \in SessionCalls :
       sessions' = [sessions EXCEPT ![s].pc = "called", ![s].call = c]
  /\ UNCHANGED <<segments, before, op, out, finished, crashed, nops, committed,
                 builder>>

\* The call of session s runs and returns.  When it met undefined
\* behaviour or a failed DCHECK the process, with every session, may die.
SessionReturn(s) ==
  /\ ~crashed
  /\ sessions[s].pc = "called"
  /\ \E r \in {Handle(sessions[s].call, sessions[s].buf)} :
       \/ /\ sessions' = Returned(sessions, s, r)
          /\ crashed' = FALSE
       \/ /\ r.ub \/ ~r.dcheck
          /\ sessions' = sessions
          /\ crashed' = TRUE
  /\ UNCHANGED <<segments, before, op, out, finished, nops, committed,
                 builder>>

NextSessions ==
  \/ \E s \in Sessions : SessionCall(s)
  \/ \E s \in Sessions : SessionReturn(s)

SpecSessions == Init /\ [][NextSessions]_vars

(***************************************************************************)
(* TrimCandidates on its own, applied to buffers of up to one history      *)
(* segment and two conversion segments, under every limit that matters.    *)
(***************************************************************************)
\* A segment with n candidates, with or without meta-candidates.
TrimSegmentOf(type, n, meta) ==
  [key |-> KeyA, segment_type |-> type,
   candidates |-> [i \in 1..n |-> DecoderCandidate(KeyA, i)],
   meta_candidates |-> IF meta THEN MetaCandidates(KeyA) ELSE <<>>]

\* Buffers of no or one history segment followed by up to two conversion
\* segments.
TrimInputs ==
  LET conv == {TrimSegmentOf("FREE", n, m) : n \in 0..MaxCands, m \in BOOLEAN}
      hist == {<<>>} \cup {<<TrimSegmentOf("HISTORY", n, m)>> :
                             n \in {1, MaxCands}, m \in BOOLEAN}
  IN  {[NewSegments EXCEPT !.segs = h \o c] :
         h \in hist,
         c \in {<<>>} \cup {<<a>> : a \in conv}
              \cup {<<a, b>> : a \in conv, b \in conv}}

\* The values of candidates_size_limit; -1 for a request without one.
TrimLimits == {-1, 0, 1, 2, MaxCands, MaxCands + 1}

InitTrim ==
  /\ segments \in TrimInputs
  /\ before = segments
  /\ op = NoOp
  /\ out = [ret |-> TRUE, calls |-> <<>>, stats |-> <<>>, ub |-> FALSE,
            dcheck |-> TRUE, mid |-> <<>>, depth |-> 0, addr |-> NoAddr]
  /\ finished = FALSE
  /\ crashed = FALSE
  /\ nops = 0
  /\ committed = <<>>
  /\ sessions = [s \in Sessions |->
                   [buf |-> NewSegments, pc |-> "idle", call |-> NoOp,
                    log |-> <<>>]]
  /\ builder = NewBuilderState

TrimCandidatesOp(Limits, bound) ==
  \E limit \in Limits :
    /\ Ready(bound)
    /\ \E r \in {Result(TrimCandidates(Request("CONVERSION", KeyA, FALSE,
                                                limit, 0, 0), segments),
                         TRUE, <<>>)} :
         Apply([NoOp EXCEPT !.name = "TrimCandidates",
                            !.request = Request("CONVERSION", KeyA, FALSE,
                                                limit, 0, 0)], r)

NextTrim ==
  \/ TrimCandidatesOp(TrimLimits, MaxOps)
  \/ Return

SpecTrim == InitTrim /\ [][NextTrim]_vars

(***************************************************************************)
(* Properties.  In the state an operation leaves, op is the operation,     *)
(* out its result, before the buffer it was called on and segments the     *)
(* buffer it left.                                                         *)
(***************************************************************************)
\* A segment that holds a candidate, or on mobile a meta-candidate.
ValidSegment(seg, mobile) ==
  \/ Len(seg.candidates) > 0
  \/ mobile /\ Len(seg.meta_candidates) > 0

\* Every conversion segment of S is a ValidSegment.
ValidConversionSegments(S, mobile) ==
  \A i \in 1..conversion_segments_size(S) :
     ValidSegment(conversion_segment(S, i - 1), mobile)

HistoryBounded(S) == history_segments_size(S) <= S.max_history_segments_size

\* C1, as the code has it: when FinishConversion returns, the history
\* prefix holds at most max_history_segments_size segments; afterwards
\* only an operation that submits segments (CommitSegments,
\* CommitPartialSuggestionSegmentValue) takes the prefix above the maximum.
C1_HistoryBoundedOnFinish ==
  /\ (op.name = "FinishConversion" /\ ~crashed) => HistoryBounded(segments)
  /\ (HistoryBounded(before) /\ ~HistoryBounded(segments))
       => op.name \in {"CommitSegments",
                       "CommitPartialSuggestionSegmentValue"}

\* FinishConversion has returned on a buffer that held more segments than
\* the maximum: the front was evicted.
C1_Witness ==
  /\ op.name = "FinishConversion"
  /\ ~crashed
  /\ Len(out.mid[1]) > segments.max_history_segments_size
  /\ history_segments_size(segments) = segments.max_history_segments_size

\* C1, as stated: in every state after FinishConversion has returned the
\* history prefix holds at most max_history_segments_size segments.
C1_HistoryBoundedEver == finished => HistoryBounded(segments)

C3_StartConversionReturn ==
  (op.name = "StartConversion" /\ op.request.key # <<>> /\ ~crashed)
    => (out.ret <=> ValidConversionSegments(segments, op.request.mobile))

\* The concatenated keys of the segments of segs from absolute index start.
KeysFrom(segs, start) == ConcatKeys(SubSeq(segs, start + 1, Len(segs)))

\* The non-zero entries of a size array, in order.
NonZero(sizes) == SelectSeq(sizes, LAMBDA x : x # 0)

\* ResizeSegments has returned true.
ResizeSegmentsDone ==
  op.name = "ResizeSegments" /\ out.ret /\ ~crashed

\* The absolute index the last operation's segment_index was translated to.
StartIndex == GetSegmentIndex(before, op.segment_index)

\* The buffer of the last ResizeSegments after boundary repair, before it
\* was decoded again.
Repaired == out.mid[1]

\* C4: a successful ResizeSegments conserves key content: the segments
\* before the start index are untouched by the boundary repair, and the
\* concatenated keys from the start index to the end of the buffer are the
\* same before the call, after the boundary repair and on return.
C4_ResizeConservesKeys ==
  ResizeSegmentsDone =>
    /\ SubSeq(Repaired.segs, 1, StartIndex)
         = SubSeq(before.segs, 1, StartIndex)
    /\ KeysFrom(Repaired.segs, StartIndex)
         = KeysFrom(before.segs, StartIndex)
    /\ ConcatKeys(segments.segs) = ConcatKeys(before.segs)

\* A successful ResizeSegments whose remainder was merged with the segment
\* that followed the consumed ones: it consumed the first of two segments,
\* cut it in two, and left two segments.
C4_Witness ==
  /\ ResizeSegmentsDone
  /\ Len(before.segs) = StartIndex + 2
  /\ SeqSum(op.sizes) < CharsLen(before.segs[StartIndex + 1].key)
  /\ Len(NonZero(op.sizes)) = 1
  /\ Len(Repaired.segs) = StartIndex + 2
  /\ before.segs[StartIndex + 2].key # <<>>

\* C5: after a successful ResizeSegments, before the buffer is decoded
\* again, the segments from the start index are FIXED_BOUNDARY, the j-th
\* holds exactly s_j codepoints (s_j the j-th non-zero size), their keys
\* are consecutive pieces of the concatenated source key, and the resized
\* flag is set.
C5_ResizePinsSizes ==
  ResizeSegmentsDone =>
    /\ Repaired.resized
    /\ segments.resized
    /\ Len(Repaired.segs) >= StartIndex + Len(NonZero(op.sizes))
    /\ \A j \in 1..Len(NonZero(op.sizes)) :
          /\ Repaired.segs[StartIndex + j].segment_type = "FIXED_BOUNDARY"
          /\ CharsLen(Repaired.segs[StartIndex + j].key)
               = NonZero(op.sizes)[j]
          /\ ConcatKeys(SubSeq(Repaired.segs, StartIndex + 1, StartIndex + j))
               = SubSeq(KeysFrom(before.segs, StartIndex), 1,
                        Len(ConcatKeys(SubSeq(Repaired.segs, StartIndex + 1,
                                              StartIndex + j))))

\* A successful ResizeSegments with a zero among its sizes and two pinned
\* segments made.
C5_Witness ==
  /\ ResizeSegmentsDone
  /\ Len(NonZero(op.sizes)) = 2
  /\ Len(op.sizes) = 3
  /\ ~before.resized

\* The case of C6: ResizeSegment at index 0 with a negative offset that
\* leaves a proper prefix, on a buffer with one conversion segment of two
\* codepoints or more.
C6_Case ==
  /\ op.name = "ResizeSegment"
  /\ ~crashed
  /\ op.request.request_type = "CONVERSION"
  /\ op.segment_index = 0
  /\ conversion_segments_size(before) = 1
  /\ CharsLen(conversion_segment(before, 0).key) >= 2
  /\ op.offset < 0
  /\ CharsLen(conversion_segment(before, 0).key) + op.offset > 0

\* In the case of C6 the boundary repair leaves two conversion segments,
\* keyed by the prefix and the rest of the original key, of type first and
\* second.
C6_TwoSegments(first, second) ==
  /\ out.ret
  /\ Len(Repaired.segs) = history_segments_size(before) + 2
  /\ LET a == Repaired.segs[history_segments_size(before) + 1]
         b == Repaired.segs[history_segments_size(before) + 2]
     IN  /\ a.key \o b.key = conversion_segment(before, 0).key
         /\ CharsLen(a.key)
              = CharsLen(conversion_segment(before, 0).key) + op.offset
         /\ a.segment_type = first
         /\ b.segment_type = second

\* C6, as the code has it: the prefix segment is FIXED_BOUNDARY and the
\* segment that holds the rest is FREE; when the rewriter asks for no
\* further resize the buffer returned has the same keys and types.
C6_PrefixPinnedRestFree ==
  C6_Case =>
    /\ C6_TwoSegments("FIXED_BOUNDARY", "FREE")
    /\ out.depth = 0 =>
         /\ Len(segments.segs) = Len(Repaired.segs)
         /\ \A i \in 1..Len(segments.segs) :
               /\ segments.segs[i].key = Repaired.segs[i].key
               /\ segments.segs[i].segment_type = Repaired.segs[i].segment_type

\* The case of C6 has happened on a key of three codepoints cut after the
\* first.
C6_Witness ==
  /\ C6_Case
  /\ op.offset = -2
  /\ CharsLen(conversion_segment(before, 0).key) = 3

\* C6, as stated: both segments are FIXED_BOUNDARY.
C6_BothPinned == C6_Case => C6_TwoSegments("FIXED_BOUNDARY", "FIXED_BOUNDARY")

\* C7, as stated: ResizeSegments returns false, leaves the buffer as it
\* was and calls no collaborator when the request is not a CONVERSION, when
\* the start index is no conversion-segment index, when the sizes sum to 0,
\* or when the keys from the start index on hold fewer codepoints than the
\* sum of the sizes.
C7_ResizeRejects ==
  (/\ op.name = "ResizeSegments"
   /\ ~crashed
   /\ \/ op.request.request_type # "CONVERSION"
      \/ op.segment_index >= conversion_segments_size(before)
      \/ SeqSum(op.sizes) = 0
      \/ SumCharsLen(SubSeq(conversion_segments(before), op.segment_index + 1,
                            conversion_segments_size(before)))
           < SeqSum(op.sizes))
    => /\ ~out.ret
       /\ segments = before
       /\ out.calls = <<>>

\* ResizeSegment was called with an argument that the size check rejects:
\* a zero offset, a request that is no CONVERSION, an index that is no
\* conversion-segment index, or a new size outside 1..255.
C8_Rejected ==
  \/ op.offset = 0
  \/ op.request.request_type # "CONVERSION"
  \/ op.segment_index >= conversion_segments_size(before)
  \/ CharsLen(conversion_segment(before, op.segment_index).key) + op.offset
       <= 0
  \/ CharsLen(conversion_segment(before, op.segment_index).key) + op.offset
       > kUint8Max

\* What ResizeSegments returns on the buffer the last ResizeSegment was
\* called on, for the one size k + offset.
C8_AsResizeSegments ==
  ResizeSegments(before, op.request, op.segment_index,
    <<CharsLen(conversion_segment(before, op.segment_index).key) + op.offset>>,
    op.oracle, 0)

\* The last ResizeSegment returned false and left the buffer as it was.
C8_Refused == ~out.ret /\ segments = before /\ out.calls = <<>>

\* The last ResizeSegment did what ResizeSegments does for k + offset.
C8_Forwarded ==
  /\ out.ret = C8_AsResizeSegments.ret
  /\ segments = C8_AsResizeSegments.S
  /\ out.calls = C8_AsResizeSegments.calls

\* C8, as the code has it: ResizeSegment returns false and leaves the
\* buffer as it was for a zero offset, a request that is no CONVERSION, an
\* index that is no conversion-segment index, a segment whose key is empty,
\* or a new size k + offset outside 1..255; in every other case it does
\* what ResizeSegments does for the one size k + offset.
C8_ResizeSegmentForwards ==
  (op.name = "ResizeSegment" /\ ~crashed) =>
    IF C8_Rejected THEN C8_Refused
    ELSE IF conversion_segment(before, op.segment_index).key = <<>>
      THEN C8_Refused
    ELSE C8_Forwarded

\* ResizeSegment has refused to grow a conversion segment whose key is
\* empty, on a buffer on which ResizeSegments succeeds for the same size.
C8_Witness ==
  /\ op.name = "ResizeSegment"
  /\ ~crashed
  /\ ~C8_Rejected
  /\ conversion_segment(before, op.segment_index).key = <<>>
  /\ ~out.ret
  /\ C8_AsResizeSegments.ret

\* C8, as stated: outside the four rejected cases ResizeSegment does what
\* ResizeSegments does for the one size k + offset.
C8_ForwardsUnlessRejected ==
  (op.name = "ResizeSegment" /\ ~crashed) =>
    IF C8_Rejected THEN C8_Refused ELSE C8_Forwarded

\* The case of C9: CommitSegmentValue has returned true for a
\* conversion-segment index and a candidate index within the candidates.
C9_Case ==
  /\ op.name = "CommitSegmentValue"
  /\ out.ret
  /\ ~crashed
  /\ op.segment_index < conversion_segments_size(before)
  /\ op.candidate_index >= 0
  /\ op.candidate_index
       < Len(conversion_segment(before, op.segment_index).candidates)

\* The sequence s without its element at index i (1-based).
Without(s, i) == SubSeq(s, 1, i - 1) \o SubSeq(s, i + 1, Len(s))

\* C9: after a successful CommitSegmentValue(s, i, c) the candidate that
\* was at index c is at index 0, marked RERANKED exactly when c # 0 and
\* otherwise as it was; the other candidates follow in their former order;
\* the segment is FIXED_VALUE; nothing else of the buffer has changed.
C9_CommitMovesCandidate ==
  C9_Case =>
    LET h == history_segments_size(before)
        old == conversion_segment(before, op.segment_index)
        new == segments.segs[h + op.segment_index + 1]
        c == op.candidate_index
    IN  /\ new.segment_type = "FIXED_VALUE"
        /\ new.candidates[1] =
             IF c # 0
               THEN [old.candidates[c + 1] EXCEPT
                       !.attributes = @ \cup {"RERANKED"}]
               ELSE old.candidates[c + 1]
        /\ Tail(new.candidates) = Without(old.candidates, c + 1)
        /\ segments = [before EXCEPT !.segs[h + op.segment_index + 1] = new]
        /\ new = [old EXCEPT !.segment_type = "FIXED_VALUE",
                             !.candidates = new.candidates]

\* CommitSegmentValue has moved the last of three candidates or more to
\* the front.
C9_Witness ==
  /\ C9_Case
  /\ op.candidate_index = 2
  /\ "RERANKED" \in segments.segs[history_segments_size(before)
                                  + op.segment_index + 1].candidates[1].attributes

\* C10, as stated: a commit returns false and leaves the buffer as it was
\* when the segment index is no conversion-segment index, or when the
\* candidate index is outside [-NUM_T13N_TYPES, candidates_size).
C10_CommitRejects ==
  (/\ op.name \in {"CommitSegmentValue",
                   "CommitPartialSuggestionSegmentValue"}
   /\ ~crashed
   /\ \/ op.segment_index >= conversion_segments_size(before)
      \/ op.candidate_index < -NUM_T13N_TYPES
      \/ op.candidate_index
           >= Len(conversion_segment(before, op.segment_index).candidates))
    => ~out.ret /\ segments = before

\* The usage counters of section 4.3 for the segments segs: one
\* SubmittedSegmentLengthx1000 per segment, then the three aggregates.
UsageCounters(segs) ==
  [i \in 1..Len(segs) |->
     [name |-> "SubmittedSegmentLengthx1000",
      value |-> CharsLen(segs[i].candidates[1].value) * 1000]]
  \o <<[name |-> "SubmittedLengthx1000",
        value |-> 1000 * SeqSum([i \in 1..Len(segs) |->
                                   CharsLen(segs[i].candidates[1].value)])],
       [name |-> "SubmittedSegmentNumberx1000", value |-> 1000 * Len(segs)],
       [name |-> "SubmittedTotalLength",
        value |-> SeqSum([i \in 1..Len(segs) |->
                            CharsLen(segs[i].candidates[1].value)])]>>

\* The candidate cand as a commit leaves it at index 0 when it came from
\* index c.
Chosen(cand, c) ==
  IF c # 0 THEN [cand EXCEPT !.attributes = @ \cup {"RERANKED"}] ELSE cand

\* CommitSegments has returned true.
C11_Case == op.name = "CommitSegments" /\ out.ret /\ ~crashed

\* The buffers CommitSegments went through: the one it was called on, then
\* the one after each sub-commit.
C11_Steps == <<before>> \o out.mid

\* Between the buffers prev and cur the first conversion segment of prev
\* was submitted with candidate index c.
SubCommitted(prev, cur, c) ==
  LET h == history_segments_size(prev)
  IN  /\ conversion_segments_size(prev) > 0
      /\ cur.segs[h + 1].segment_type = "SUBMITTED"
      /\ (0 <= c /\ c < Len(prev.segs[h + 1].candidates)) =>
           /\ cur.segs[h + 1].candidates[1]
                = Chosen(prev.segs[h + 1].candidates[c + 1], c)
           /\ Tail(cur.segs[h + 1].candidates)
                = Without(prev.segs[h + 1].candidates, c + 1)
      /\ cur = [prev EXCEPT
                  !.segs[h + 1].segment_type = "SUBMITTED",
                  !.segs[h + 1].candidates = cur.segs[h + 1].candidates]
      /\ history_segments_size(cur) >= h + 1
      /\ (\/ h + 1 = Len(prev.segs)
          \/ prev.segs[h + 2].segment_type \notin {"SUBMITTED", "HISTORY"})
           => /\ history_segments_size(cur) = h + 1
              /\ conversion_segments_size(cur)
                   = conversion_segments_size(prev) - 1

\* C11, as the code has it: a successful CommitSegments(segments,
\* [c0..c_{n-1}]) makes n sub-commits in order; the k-th submits what is
\* then the first conversion segment (SUBMITTED, candidate c_k at index 0,
\* nothing else changed), which takes it into the history prefix: the
\* prefix grows by at least 1, and by exactly 1 unless the segment behind
\* it was submitted already.  For n > 0 the usage counters of the n
\* segments from the former history size on are emitted once; for n = 0
\* nothing is emitted.
C11_CommitSegmentsInOrder ==
  C11_Case =>
    LET n == Len(op.indices)
        h == history_segments_size(before)
    IN  /\ Len(out.mid) = n
        /\ \A k \in 1..n :
             SubCommitted(C11_Steps[k], C11_Steps[k + 1], ToInt(op.indices[k]))
        /\ segments = C11_Steps[n + 1]
        /\ out.stats = IF n = 0 THEN <<>>
                       ELSE UsageCounters(SubSeq(segments.segs, h + 1, h + n))

\* CommitSegments has submitted two segments, the second with its second
\* candidate.
C11_Witness ==
  /\ C11_Case
  /\ op.indices = <<1, 0>>
  /\ history_segments_size(segments) = history_segments_size(before) + 2
  /\ "RERANKED" \in segments.segs[history_segments_size(before) + 1]
                      .candidates[1].attributes

\* C11, as stated: the first n conversion segments are submitted in order,
\* the k-th with its candidate c_k at index 0, the history prefix grows by
\* one per sub-commit, and one aggregate counter over n segments is emitted.
C11_FirstSegmentsOneByOne ==
  C11_Case =>
    LET n == Len(op.indices)
        h == history_segments_size(before)
    IN  /\ \A k \in 1..n :
             /\ segments.segs[h + k].segment_type = "SUBMITTED"
             /\ op.indices[k] < Len(before.segs[h + k].candidates)
             /\ segments.segs[h + k].candidates[1]
                  = Chosen(before.segs[h + k].candidates[op.indices[k] + 1],
                           op.indices[k])
             /\ history_segments_size(C11_Steps[k + 1]) = h + k
             /\ conversion_segments_size(C11_Steps[k + 1])
                  = conversion_segments_size(before) - k
        /\ Cardinality({i \in 1..Len(out.stats) :
                          out.stats[i] = [name |-> "SubmittedSegmentNumberx1000",
                                          value |-> 1000 * n]}) = 1

\* The sub-commit with candidate index c fails on the buffer S: no
\* conversion segment is left, or c is no index of the first one.
SubCommitFails(S, c) ==
  \/ conversion_segments_size(S) = 0
  \/ c < -NUM_T13N_TYPES
  \/ c >= Len(conversion_segment(S, 0).candidates)

C13_Case ==
  /\ op.name = "CommitPartialSuggestionSegmentValue"
  /\ out.ret
  /\ ~crashed
  /\ op.segment_index = 0

\* The fresh segment the partial commit inserts.
FreshSegment == [NewSegment EXCEPT !.key = op.new_key]

\* C13, as the code has it: after a successful
\* CommitPartialSuggestionSegmentValue(segments, 0, c, current_key,
\* new_key) the committed segment (key current_key, SUBMITTED, the selected
\* candidate at index 0) is the last segment of the history prefix; it is
\* immediately followed by a fresh FREE segment with key new_key and no
\* candidates, which is the first conversion segment; the other segments
\* are as they were.
C13_PartialCommitSplits ==
  C13_Case =>
    LET h == history_segments_size(before)
        old == before.segs[h + 1]
        c == op.candidate_index
    IN  /\ segments.segs[h + 1].key = op.key
        /\ segments.segs[h + 1].segment_type = "SUBMITTED"
        /\ (0 <= c) =>
             segments.segs[h + 1] =
               [old EXCEPT !.key = op.key, !.segment_type = "SUBMITTED",
                           !.candidates = <<Chosen(old.candidates[c + 1], c)>>
                                          \o Without(old.candidates, c + 1)]
        /\ segments.segs[h + 2] = FreshSegment
        /\ FreshSegment.segment_type = "FREE"
        /\ FreshSegment.candidates = <<>>
        /\ history_segments_size(segments) = h + 1
        /\ conversion_segment(segments, 0) = FreshSegment
        /\ segments.segs = insert_segment(
                             [before.segs EXCEPT ![h + 1] = segments.segs[h + 1]],
                             h + 1, FreshSegment)

\* Scenario E6: the only conversion segment, with key "あい", was committed
\* with current_key "あ" and new_key "い".
C13_Witness ==
  /\ C13_Case
  /\ conversion_segments_size(before) = 1
  /\ conversion_segment(before, 0).key = KeyAI
  /\ op.key = KeyA
  /\ op.new_key = KeyI
  /\ op.candidate_index = 0
  /\ conversion_segments_size(segments) = 1

\* C13, as stated: the conversion suffix then holds the committed SUBMITTED
\* segment followed by the fresh FREE segment.
C13_BothInSuffix ==
  C13_Case =>
    /\ conversion_segments_size(segments) >= 2
    /\ conversion_segment(segments, 0).key = op.key
    /\ conversion_segment(segments, 0).segment_type = "SUBMITTED"
    /\ conversion_segment(segments, 1) = FreshSegment

\* C14: StartConversion with an empty request key returns false, leaves
\* the buffer (segments, max_history_segments_size, flags, revert entries)
\* as it was, calls no collaborator and emits no counter.
C14_EmptyKeyRejected ==
  (op.name = "StartConversion" /\ op.request.key = <<>> /\ ~crashed)
    => /\ ~out.ret
       /\ segments = before
       /\ out.calls = <<>>
       /\ out.stats = <<>>

\* StartConversion with an empty key has returned on a buffer that holds
\* conversion segments.
C14_Witness ==
  /\ op.name = "StartConversion"
  /\ op.request.key = <<>>
  /\ ~crashed
  /\ conversion_segments_size(before) > 0
  /\ ~out.ret

\* The buffer StartPrediction handed to the predictor.
Keyed == out.mid[1]

\* The values of the candidates cs, in order.
Values(cs) == [i \in 1..Len(cs) |-> cs[i].value]

\* StartPrediction was called on a buffer whose first conversion segment
\* has the key of the request.
C15_SameKey ==
  /\ conversion_segments_size(before) > 0
  /\ conversion_segment(before, 0).key = op.request.key

Retired(a, b) ==
  /\ b.segment_type = "HISTORY"
  /\ b.key = a.key
  /\ b.meta_candidates = a.meta_candidates
  /\ Len(b.candidates) = Len(a.candidates)
  /\ \A i \in 2..Len(a.candidates) : b.candidates[i] = a.candidates[i]
  /\ Len(a.candidates) > 0 =>
       b.candidates[1] = [a.candidates[1] EXCEPT
                            !.lid = b.candidates[1].lid,
                            !.rid = b.candidates[1].rid,
                            !.cost = b.candidates[1].cost,
                            !.wcost = b.candidates[1].wcost,
                            !.structure_cost = b.candidates[1].structure_cost]

\* The segments of S are the last segments of T, in order, made HISTORY.
TailOf(S, T) ==
  /\ Len(S.segs) <= Len(T.segs)
  /\ \A i \in 1..Len(S.segs) :
       Retired(T.segs[Len(T.segs) - Len(S.segs) + i], S.segs[i])

\* C16, as the code has it: after FinishConversion the buffer holds a tail
\* of the segments it held before, in order, every one of them HISTORY,
\* and no conversion segment; the revert entries it held at entry are
\* gone, and those it holds are the ones recorded during the Finish calls
\* of the rewriter and the predictor.
C16_FinishKeepsTail ==
  (op.name = "FinishConversion" /\ ~crashed) =>
    /\ TailOf(segments, before)
    /\ conversion_segments_size(segments) = 0
    /\ history_segments_size(segments) = segments_size(segments)
    /\ segments.revert_entries = IF op.oracle.learn THEN 1 ELSE 0

\* FinishConversion has evicted a segment from the front and kept the rest.
C16_Witness ==
  /\ op.name = "FinishConversion"
  /\ ~crashed
  /\ segments_size(segments) > 0
  /\ segments_size(segments) < segments_size(before)
  /\ conversion_segments_size(before) > 0
  /\ before.segs[1].key # before.segs[segments_size(before)].key

\* C16, as stated: after FinishConversion the buffer holds a tail of the
\* former segments, all HISTORY, no conversion segment and no revert entry.
C16_NoRevertEntryLeft ==
  (op.name = "FinishConversion" /\ ~crashed) =>
    /\ TailOf(segments, before)
    /\ conversion_segments_size(segments) = 0
    /\ segments.revert_entries = 0

\* The smaller of two numbers.
Min(a, b) == IF a <= b THEN a ELSE b

\* C17, as the code has it: FinishConversion evicts segments from the
\* front only while the buffer holds more than max_history_segments_size
\* of them: afterwards the buffer length is the smaller of its former
\* length and max_history_segments_size, and the segments left are the
\* newest ones.
C17_EvictsDownToMax ==
  (op.name = "FinishConversion" /\ ~crashed) =>
    /\ segments_size(segments)
         = Min(segments_size(before), before.max_history_segments_size)
    /\ segments.max_history_segments_size = before.max_history_segments_size
    /\ \A i \in 1..segments_size(segments) :
         segments.segs[i].key
           = before.segs[segments_size(before) - segments_size(segments) + i].key

\* FinishConversion has returned on a buffer that held more segments than
\* the maximum: exactly the maximum is left.
C17_Witness ==
  /\ op.name = "FinishConversion"
  /\ ~crashed
  /\ segments_size(before) > before.max_history_segments_size
  /\ segments_size(segments) = before.max_history_segments_size

\* C17, as stated: after FinishConversion the buffer length equals
\* max_history_segments_size.
C17_LengthIsMax ==
  (op.name = "FinishConversion" /\ ~crashed) =>
    segments_size(segments) = segments.max_history_segments_size

\* Every segment of segs holds a candidate.
AllHaveCandidates(segs) == \A i \in 1..Len(segs) : Len(segs[i].candidates) > 0

\* C18, as stated: FinishConversion emits the usage counters of exactly the
\* conversion segments it finds: none when there is none, and otherwise one
\* SubmittedSegmentLengthx1000 per segment, CharLen(candidate(0).value) *
\* 1000 each, followed by the aggregates over all of them; finishing two
\* conversion segments on an empty history gives SubmittedSegmentNumberx1000
\* 2000 and a history prefix of 2.
C18_CountersOfSuffix ==
  (op.name = "FinishConversion" /\ ~crashed) =>
    /\ IF conversion_segments_size(before) = 0
         THEN out.stats = <<>>
         ELSE /\ AllHaveCandidates(conversion_segments(before))
              /\ out.stats = UsageCounters(conversion_segments(before))
    /\ (segments_size(before) = 2 /\ conversion_segments_size(before) = 2) =>
         /\ history_segments_size(segments) = 2
         /\ \E i \in 1..Len(out.stats) :
              out.stats[i] = [name |-> "SubmittedSegmentNumberx1000",
                              value |-> 2000]

\* C19: RevertConversion on a buffer without revert entries calls no
\* collaborator and leaves the buffer as it was; on a buffer with revert
\* entries it calls Rewriter.Revert, then Predictor.Revert, and then clears
\* the entries, changing nothing else; so a RevertConversion that follows
\* at once calls no collaborator and changes nothing.
C19_RevertOnce ==
  (op.name = "RevertConversion" /\ ~crashed) =>
    /\ IF before.revert_entries = 0
         THEN segments = before /\ out.calls = <<>>
         ELSE /\ out.calls = <<"Rewriter.Revert", "Predictor.Revert">>
              /\ segments = [before EXCEPT !.revert_entries = 0]
    /\ segments.revert_entries = 0
    /\ RevertConversion(segments).S = segments
    /\ RevertConversion(segments).calls = <<>>

\* RevertConversion has returned on a buffer that held a revert entry.
C19_Witness ==
  /\ op.name = "RevertConversion"
  /\ ~crashed
  /\ before.revert_entries > 0
  /\ segments.revert_entries = 0
  /\ Len(out.calls) = 2

\* The case of C20: RevertConversion has returned, called right after a
\* CommitSegmentValue that succeeded on a conversion segment with a
\* candidate index within its candidates.
C20_Case ==
  /\ op.name = "RevertConversion"
  /\ ~crashed
  /\ committed # <<>>
  /\ committed[1].segment_index < conversion_segments_size(committed[1].S)
  /\ committed[1].candidate_index >= 0

\* The candidates conversion segment i had before the commit, and the ones
\* it has after the revert.
C20_CandidatesBefore ==
  conversion_segment(committed[1].S, committed[1].segment_index).candidates

C20_CandidatesAfter ==
  segments.segs[history_segments_size(committed[1].S)
                + committed[1].segment_index + 1].candidates

SegmentIndexOps ==
  {"CommitSegmentValue", "CommitPartialSuggestionSegmentValue",
   "FocusSegmentValue", "ResizeSegment", "ResizeSegments",
   "DeleteCandidateFromHistory"}

\* C21: every public operation that takes a segment_index addresses the
\* segment at absolute position history_segments_size() + segment_index of
\* the buffer it was called on, so that it never addresses a history
\* segment.
C21_IndexIsRelative ==
  op.name \in SegmentIndexOps /\ out.addr # NoAddr
    => /\ out.addr = history_segments_size(before) + op.segment_index
       /\ out.addr >= history_segments_size(before)

\* The same for the operations that translate the index with
\* GetSegmentIndex, called with an index that cannot wrap.
C21_TranslatedIndexIsRelative ==
  /\ op.name \in SegmentIndexOps \ {"DeleteCandidateFromHistory"}
  /\ out.addr # NoAddr
  /\ op.segment_index < kErrorIndex
  => out.addr = history_segments_size(before) + op.segment_index

\* DeleteCandidateFromHistory with index 0 on a buffer with a history
\* prefix: it has addressed the first history segment.
C21_DeleteAddressesHistory ==
  /\ op.name = "DeleteCandidateFromHistory"
  /\ op.segment_index = 0
  /\ history_segments_size(before) > 0
  /\ out.addr = 0

(***************************************************************************)
(* Sessions.                                                               *)
(***************************************************************************)
RECURSIVE Alone(_, _)
\* The buffer a session is left with when the calls of log run alone, in
\* order, on the buffer S.
Alone(log, S) ==
  IF log = <<>> THEN S ELSE Alone(Tail(log), Handle(Head(log), S).S)

\* Every buffer is as if its session had run alone.
C22_AsIfAlone ==
  \A s \in Sessions : sessions[s].buf = Alone(sessions[s].log, NewSegments)

\* A step changes the buffer of a session only when it is the return of a
\* call of that session; then a step changes no other buffer, and what it
\* leaves is a function of the buffer the call carried.
C22_OwnBufferOnly ==
  \A s \in Sessions :
    sessions'[s].buf # sessions[s].buf
      => /\ sessions[s].pc = "called"
         /\ sessions'[s].buf = Handle(sessions[s].call, sessions[s].buf).S
         /\ \A t \in Sessions \ {s} : sessions'[t] = sessions[t]

C23_Case ==
  /\ op.name = "StartPrediction"
  /\ op.request.request_type \in {"PARTIAL_PREDICTION", "PARTIAL_SUGGESTION"}
  /\ op.request.cursor = 0 \/ op.request.cursor = op.request.length

\* Whether a candidate of buffer S carries PARTIALLY_KEY_CONSUMED or a
\* consumed_key_size.
HasPartialCandidate(S) ==
  \E i \in 1..Len(S.segs) :
    \/ \E j \in 1..Len(S.segs[i].candidates) :
         \/ "PARTIALLY_KEY_CONSUMED" \in S.segs[i].candidates[j].attributes
         \/ S.segs[i].candidates[j].consumed_key_size # 0
    \/ \E j \in 1..Len(S.segs[i].meta_candidates) :
         \/ "PARTIALLY_KEY_CONSUMED" \in S.segs[i].meta_candidates[j].attributes
         \/ S.segs[i].meta_candidates[j].consumed_key_size # 0

\* C23: StartPrediction with a PARTIAL_PREDICTION or PARTIAL_SUGGESTION
\* request whose cursor is at 0 or at length fails its precondition check
\* and marks no candidate as partial.
C23_NoPartialAtEdge ==
  C23_Case
    => /\ ~ValidateConversionRequestForPrediction(op.request)
       /\ ~out.dcheck
       /\ ~HasPartialCandidate(segments)

\* A partial request with the cursor at 0 passed the precondition check
\* and its predictions were marked.
C23_MarkedAtEdge ==
  /\ C23_Case
  /\ op.request.cursor = 0
  /\ out.dcheck
  /\ ~crashed
  /\ HasPartialCandidate(segments)

(***************************************************************************)
(* ResizeSegments: the source run and the remainder.                       *)
(***************************************************************************)
\* Codepoints held by the n segments of S from absolute index start.
RunLength(S, start, n) == SumCharsLen(SubSeq(S.segs, start + 1, start + n))

\* Whether the n segments from start are the shortest run that holds
\* total codepoints or more.
ShortestRun(S, start, n, total) ==
  /\ RunLength(S, start, n) >= total
  /\ \A k \in 1..(n - 1) : RunLength(S, start, k) < total

\* The remainder rule on the buffer T that the boundary repair made of S:
\* n source segments were consumed from start, m segments inserted; the
\* segments behind them are those that followed the source run, the first
\* of them replaced by a FREE segment that begins with the leftover when
\* there is one.
RemainderRule(S, T, start, n, m, total) ==
  LET src == KeysFrom(SubSeq(S.segs, 1, start + n), start)
      new == KeysFrom(SubSeq(T.segs, 1, start + m), start)
      rest == SubSeq(src, Len(new) + 1, Len(src))
      follow == SubSeq(S.segs, start + n + 1, Len(S.segs))
      tail == SubSeq(T.segs, start + m + 1, Len(T.segs))
      free(key) == [NewSegment EXCEPT !.segment_type = "FREE", !.key = key]
  IN  /\ CharsLen(new) = total
      /\ CharsLen(rest) = RunLength(S, start, n) - total
      /\ new \o rest = src
      /\ IF RunLength(S, start, n) = total THEN tail = follow
         ELSE IF follow = <<>> THEN tail = <<free(rest)>>
         ELSE tail = <<free(rest \o follow[1].key)>> \o Tail(follow)

\* C24: a successful ResizeSegments consumes the shortest run of segments
\* from the start index that holds at least as many codepoints as the
\* sizes sum to; codepoints left over are prepended to the key of the
\* segment that follows the new ones, which is replaced by a FREE segment
\* without candidates, or make a new FREE segment when none follows; when
\* nothing is left over the segments behind the new ones are not modified
\* by the boundary repair.
C24_RemainderRule ==
  ResizeSegmentsDone =>
    \E n \in 1..(Len(before.segs) - StartIndex) :
      /\ ShortestRun(before, StartIndex, n, SeqSum(op.sizes))
      /\ RemainderRule(before, Repaired, StartIndex, n,
                       Len(NonZero(op.sizes)), SeqSum(op.sizes))

\* A successful ResizeSegments whose leftover was merged into a following
\* segment that held candidates.
C24_Witness ==
  /\ ResizeSegmentsDone
  /\ Len(before.segs) >= StartIndex + 2
  /\ CharsLen(before.segs[StartIndex + 1].key) > SeqSum(op.sizes)
  /\ before.segs[StartIndex + 2].candidates # <<>>
  /\ Repaired.segs[StartIndex + Len(NonZero(op.sizes)) + 1].candidates = <<>>
  /\ Repaired.segs[StartIndex + Len(NonZero(op.sizes)) + 1].segment_type = "FREE"

(***************************************************************************)
(* FinishConversion: what the Finish hooks find.                           *)
(***************************************************************************)
\* FinishConversion has returned.
FinishConversionDone == op.name = "FinishConversion" /\ ~crashed

\* The learning pass is complete on segment seg, made of segment old:
\* SUBMITTED has become FIXED_VALUE, no other type has changed, and the
\* POS ids of the first candidate are completed.
Learned(seg, old, rank) ==
  /\ seg.segment_type # "SUBMITTED"
  /\ seg.segment_type =
       IF old.segment_type = "SUBMITTED" THEN "FIXED_VALUE"
       ELSE old.segment_type
  /\ seg.key = old.key
  /\ Len(seg.candidates) = Len(old.candidates)
  /\ old.candidates # <<>> =>
       /\ seg.candidates[1] = CompletePosIds(old.candidates[1], rank)
       /\ Tail(seg.candidates) = Tail(old.candidates)

\* What a Finish hook must find in the moment at when FinishConversion
\* was called on buffer old and emitted the counters stats in all.
ReadyToLearn(at, old, stats, rank) ==
  /\ at.stats = stats
  /\ at.S.revert_entries = 0
  /\ Len(at.S.segs) = Len(old.segs)
  /\ \A i \in 1..Len(old.segs) : Learned(at.S.segs[i], old.segs[i], rank)

RECURSIVE Times(_, _)
\* The sequence seq repeated n times.
Times(n, seq) == IF n = 0 THEN <<>> ELSE seq \o Times(n - 1, seq)

\* The number of entries of calls that are the call name.
Count(calls, name) == Len(SelectSeq(calls, LAMBDA c : c = name))

\* The last operation ran the conversion pipeline: a StartConversion with
\* a key, a StartPrediction, or a resize that succeeded.
PipelineRan ==
  /\ op.name \in {"StartConversion", "StartPrediction", "ResizeSegment",
                  "ResizeSegments"}
  /\ out.calls # <<>>
  /\ ~crashed

\* The collaborator that opens the pipeline of the last operation.
FirstStage ==
  IF op.name = "StartPrediction" THEN "PredictForRequest"
  ELSE "ConvertForRequest"

\* The suppression pass as the calls of the last operation must show it:
\* once when Rewrite returned true and the dictionary is not empty.
SuppressCall ==
  IF op.oracle.rewrite # "false" /\ op.oracle.suppress
    THEN <<"Suppress">> ELSE <<>>

\* The last operation with the rewriter asking for no resize.
WithoutResizeRequest == [op EXCEPT !.oracle.resize = <<>>]

\* C26: when a resize the rewriter asked for succeeds, the outer
\* Rewrite&Suppress step returns without calling Rewriter.Rewrite or the
\* suppression pass, so that Rewriter.Rewrite is called exactly once, in
\* the innermost pipeline, however many resizes succeeded; when the resize
\* asked for fails, the step rewrites and suppresses the buffer as it was,
\* with the result it has when no resize is asked for.
C26_ResizeFeedback ==
  PipelineRan =>
    /\ Count(out.calls, "Rewrite") = 1
    /\ out.calls =
         <<FirstStage, "CheckResizeSegmentsRequest">>
         \o Times(out.depth, <<"ConvertForRequest", "CheckResizeSegmentsRequest">>)
         \o <<"Rewrite">> \o SuppressCall
         \o Times(out.depth + 1, <<"Trim">>)
    /\ out.depth = 0 =>
         /\ segments = Handle(WithoutResizeRequest, before).S
         /\ out.calls = Handle(WithoutResizeRequest, before).calls

\* A StartConversion during which a resize asked for by the rewriter
\* succeeded, with a rewriter that adds candidates and a dictionary that
\* blocks some.
C26_Witness ==
  /\ PipelineRan
  /\ op.name = "StartConversion"
  /\ out.depth >= 1
  /\ segments.resized
  /\ Len(segments.segs) >= 2
  /\ op.oracle.rewrite = "add"
  /\ op.oracle.suppress

\* C27: whatever the rewriter answers to CheckResizeSegmentsRequest,
\* ResizeSegments is never re-entered from the Rewrite&Suppress step at a
\* nesting depth greater than 1.
C27_DepthAtMostOne == out.depth <= 1

\* A StartConversion during which the rewriter asked for a valid resize on
\* every call it was given: every request was served, one nested in the
\* other, as deep as the rewriter went on asking.
C27_DepthFollowsRewriter ==
  /\ op.name = "StartConversion"
  /\ ~crashed
  /\ Len(op.oracle.resize) = MaxResizeAnswers
  /\ out.depth = MaxResizeAnswers
  /\ Count(out.calls, "ConvertForRequest") = MaxResizeAnswers + 1

\* The candidates of list cs that the dictionary does not block, in order.
NotBlocked(cs) == SelectSeq(cs, LAMBDA c : ~SuppressEntry(c.key, c.value))

\* The last operation with an empty suppression dictionary.
WithoutDictionary == [op EXCEPT !.oracle.suppress = FALSE]

\* Buffer S is buffer U with the blocked candidates removed from the
\* conversion segments and everything else as it is in U.
Filtered(S, U) ==
  /\ Len(S.segs) = Len(U.segs)
  /\ \A i \in 1..Len(U.segs) :
       IF i > history_segments_size(U)
         THEN S.segs[i] = [U.segs[i] EXCEPT !.candidates = NotBlocked(@)]
         ELSE S.segs[i] = U.segs[i]

TrimmedSegment(seg, old, limit) ==
  /\ Len(seg.candidates) <= Max(1, limit - Len(old.meta_candidates))
  /\ Len(seg.candidates) <= Len(old.candidates)
  /\ seg.candidates = SubSeq(old.candidates, 1, Len(seg.candidates))
  /\ old.candidates # <<>> => seg.candidates # <<>>
  /\ seg = [old EXCEPT !.candidates = seg.candidates]

\* C29: under a request with candidates_size_limit L, TrimCandidates
\* leaves every conversion segment with at most max(1, L - its number of
\* meta-candidates) candidates, the leading ones in their order, one at
\* least when it had one, and leaves meta-candidates and history segments
\* alone; under a request without a limit it changes nothing; trimming
\* the trimmed buffer again changes nothing.
C29_Trim ==
  op.name = "TrimCandidates" =>
    /\ Len(segments.segs) = Len(before.segs)
    /\ segments = [before EXCEPT !.segs = segments.segs]
    /\ IF op.request.limit < 0 THEN segments = before
       ELSE \A i \in 1..Len(before.segs) :
              IF i > history_segments_size(before)
                THEN TrimmedSegment(segments.segs[i], before.segs[i],
                                    op.request.limit)
                ELSE segments.segs[i] = before.segs[i]
    /\ TrimCandidates(op.request, segments) = segments

\* A trim under limit 2 that cut a conversion segment with meta-candidates
\* down to one candidate, cut one without meta-candidates down to two and
\* left a longer history segment alone.
C29_Witness ==
  /\ op.name = "TrimCandidates"
  /\ op.request.limit = 2
  /\ Len(before.segs) = 3
  /\ history_segments_size(before) = 1
  /\ Len(segments.segs[1].candidates) = MaxCands
  /\ before.segs[2].meta_candidates # <<>>
  /\ Len(before.segs[2].candidates) = MaxCands
  /\ Len(segments.segs[2].candidates) = 1
  /\ before.segs[3].meta_candidates = <<>>
  /\ Len(before.segs[3].candidates) = MaxCands
  /\ Len(segments.segs[3].candidates) = 2

RECURSIVE IsPipeline(_, _)
\* Whether calls is the run of one pipeline opened by the stage first:
\* first, the resize check, then either Rewrite with or without the
\* suppression pass or, nested, the pipeline of a resize, and Trim last.
IsPipeline(calls, first) ==
  /\ Len(calls) >= 4
  /\ calls[1] = first
  /\ calls[2] = "CheckResizeSegmentsRequest"
  /\ calls[Len(calls)] = "Trim"
  /\ \/ SubSeq(calls, 3, Len(calls) - 1) = <<"Rewrite">>
     \/ SubSeq(calls, 3, Len(calls) - 1) = <<"Rewrite", "Suppress">>
     \/ IsPipeline(SubSeq(calls, 3, Len(calls) - 1), "ConvertForRequest")

\* The last operation had to run the pipeline: a StartConversion with a
\* key, a StartPrediction, or a resize that succeeded.
PipelineDue ==
  /\ ~crashed
  /\ \/ op.name = "StartConversion" /\ op.request.key # <<>>
     \/ op.name = "StartPrediction"
     \/ op.name \in {"ResizeSegment", "ResizeSegments"} /\ out.ret

\* C30: every StartConversion with a key and every resize that succeeds
\* runs the decoder, then Rewrite&Suppress, then Trim; every
\* StartPrediction runs the predictor, then Rewrite&Suppress, then Trim;
\* whatever the decoder or the predictor returned.  Within Rewrite&Suppress
\* the resize check comes first, then Rewrite, then the suppression pass,
\* and Trim is last.
C30_PipelineOrder == PipelineDue => IsPipeline(out.calls, FirstStage)

\* A StartConversion whose decoder returned false and found nothing went
\* on to the rewriter, which supplied the candidates.
C30_Witness ==
  /\ PipelineDue
  /\ op.name = "StartConversion"
  /\ ~op.oracle.conv.ret
  /\ out.ret
  /\ Count(out.calls, "Rewrite") = 1
  /\ segments.segs[Len(segments.segs)].candidates # <<>>

(***************************************************************************)
(* C31: the marking of partial predictions.                                *)
(***************************************************************************)
PartialTypes == {"PARTIAL_PREDICTION", "PARTIAL_SUGGESTION"}

\* Candidate c is candidate p after the orchestrator handled it: p itself
\* when p was flagged already; otherwise p with the flag and the given
\* consumed_key_size, which does not exceed the length of the segment key.
MarkedFrom(p, c, size, key) ==
  /\ "PARTIALLY_KEY_CONSUMED" \in c.attributes
  /\ IF "PARTIALLY_KEY_CONSUMED" \in p.attributes THEN c = p
     ELSE /\ c = [p EXCEPT !.attributes = @ \cup {"PARTIALLY_KEY_CONSUMED"},
                           !.consumed_key_size = size]
          /\ c.consumed_key_size <= CharsLen(key)

\* The candidate list cs is the list ps, each candidate handled as above.
AllMarkedFrom(ps, cs, size, key) ==
  /\ Len(cs) = Len(ps)
  /\ \A i \in 1..Len(cs) : MarkedFrom(ps[i], cs[i], size, key)

\* C31: after StartPrediction with a partial request every candidate and
\* meta-candidate of the first conversion segment carries
\* PARTIALLY_KEY_CONSUMED; one that lacked the flag when the pipeline ended
\* has consumed_key_size = CharsLen(request.key), at most the length of the
\* segment key, one that had it is unchanged, and nothing else in the buffer
\* differs.  With a PREDICTION or SUGGESTION request the buffer is left as
\* the pipeline ended.
C31_PartialMarking ==
  (op.name = "StartPrediction" /\ ~crashed) =>
    LET T == out.mid[2]
        h == history_segments_size(T)
    IN  IF op.request.request_type \in PartialTypes
          THEN /\ conversion_segments_size(segments) >= 1
               /\ Len(segments.segs) = Len(T.segs)
               /\ segments = [T EXCEPT !.segs[h + 1] = segments.segs[h + 1]]
               /\ segments.segs[h + 1] =
                    [T.segs[h + 1] EXCEPT
                       !.candidates = segments.segs[h + 1].candidates,
                       !.meta_candidates =
                         segments.segs[h + 1].meta_candidates]
               /\ AllMarkedFrom(T.segs[h + 1].candidates,
                                segments.segs[h + 1].candidates,
                                CharsLen(op.request.key),
                                segments.segs[h + 1].key)
               /\ AllMarkedFrom(T.segs[h + 1].meta_candidates,
                                segments.segs[h + 1].meta_candidates,
                                CharsLen(op.request.key),
                                segments.segs[h + 1].key)
          ELSE segments = T

\* A partial StartPrediction has returned on a first conversion segment
\* that holds a candidate the predictor had flagged with a shorter consumed
\* key, a candidate the orchestrator flagged, and a meta-candidate.
C31_Witness ==
  /\ op.name = "StartPrediction"
  /\ ~crashed
  /\ op.request.request_type \in PartialTypes
  /\ conversion_segments_size(segments) >= 1
  /\ LET T == out.mid[2]
         h == history_segments_size(T)
     IN  /\ \E i \in 1..Len(T.segs[h + 1].candidates) :
               /\ "PARTIALLY_KEY_CONSUMED"
                    \in T.segs[h + 1].candidates[i].attributes
               /\ segments.segs[h + 1].candidates[i].consumed_key_size
                    < CharsLen(op.request.key)
         /\ \E i \in 1..Len(T.segs[h + 1].candidates) :
               /\ "PARTIALLY_KEY_CONSUMED"
                    \notin T.segs[h + 1].candidates[i].attributes
               /\ segments.segs[h + 1].candidates[i].consumed_key_size
                    = CharsLen(op.request.key)
         /\ Len(segments.segs[h + 1].meta_candidates) > 0

(***************************************************************************)
(* CompletePosIds, decode by decode.  The decoder is asked in PREDICTION   *)
(* mode for the candidate's key with a budget of candidates; its answer is *)
(* described by d: d.ranks are the ranks at which it lists the candidate's *)
(* value, d.fail is the call (1, 2) that returns false, 0 when none does.  *)
(***************************************************************************)
\* Longest list of candidates the decoder can return.
MaxRank == 57

\* The candidate the decoder lists at rank i for reading k; hit tells
\* whether it is the looked-up value.  Each rank has its own ids and costs.
RankedCandidate(k, i, hit) ==
  [Candidate(k, k \o <<IF hit THEN 49 ELSE 50>>, 0) EXCEPT
     !.lid = DecoderPosId + i, !.rid = DecoderPosId + 2 * i,
     !.cost = 100 + i, !.wcost = 200 + i, !.structure_cost = 300 + i]

\* ImmutableConverter::ConvertForRequest for a PREDICTION request of at
\* most size candidates: candidates of segment 0.
PosDecode(k, size, d) ==
  [i \in 1..Min(size, MaxRank) |-> RankedCandidate(k, i, i \in d.ranks)]

\* The request CompletePosIds builds for one decode.
PosRequest(k, size) ==
  [request_type |-> "PREDICTION", key |-> k,
   max_conversion_candidates_size |-> size]

\* A variant that copies the POS ids but not the costs.
CopyPos_IdsOnly(candidate, ref) ==
  [candidate EXCEPT !.lid = ref.lid, !.rid = ref.rid]

\* CompletePosIds, the copy from the matching candidate.
CopyPos(candidate, ref) ==
  [candidate EXCEPT !.lid = ref.lid, !.rid = ref.rid, !.cost = ref.cost,
                    !.wcost = ref.wcost,
                    !.structure_cost = ref.structure_cost]

\* Least rank at which list refs holds value v, 0 when it does not.
FirstMatch(refs, v) ==
  IF \E i \in 1..Len(refs) : refs[i].value = v
    THEN CHOOSE i \in 1..Len(refs) :
           /\ refs[i].value = v
           /\ \A j \in 1..(i - 1) : refs[j].value # v
    ELSE 0

RECURSIVE PosLoop(_, _, _, _)
\* CompletePosIds, the loop from budget size on; sent are the requests
\* made so far.  The result is the candidate and the requests made.
PosLoop(candidate, size, d, sent) ==
  IF ~(size < kExpandSizeMax) THEN [candidate |-> candidate, sent |-> sent]
  ELSE IF d.fail = Len(sent) + 1
    THEN [candidate |-> candidate,
          sent |-> Append(sent, PosRequest(candidate.key, size))]
  ELSE IF FirstMatch(PosDecode(candidate.key, size, d), candidate.value) # 0
    THEN [candidate |->
            CopyPos(candidate,
                    PosDecode(candidate.key, size, d)[
                      FirstMatch(PosDecode(candidate.key, size, d),
                                 candidate.value)]),
          sent |-> Append(sent, PosRequest(candidate.key, size))]
  ELSE PosLoop(candidate, size + kExpandSizeDiff, d,
               Append(sent, PosRequest(candidate.key, size)))

\* Converter::CompletePosIds with the decoder d.
CompletePosIdsWith(candidate, d) ==
  IF candidate.value = <<>> \/ candidate.key = <<>>
    THEN [candidate |-> candidate, sent |-> <<>>]
  ELSE IF candidate.lid # 0 /\ candidate.rid # 0
    THEN [candidate |-> candidate, sent |-> <<>>]
  ELSE PosLoop([candidate EXCEPT !.lid = general_noun_id,
                                 !.rid = general_noun_id],
               kExpandSizeStart, d, <<>>)

\* The candidates CompletePosIds is called on: with and without key and
\* value, with and without each id.
PosInputs ==
  {[Candidate(k, v, 0) EXCEPT !.lid = l, !.rid = r, !.cost = c, !.wcost = c,
                              !.structure_cost = c] :
     k \in {KeyEmpty, KeyA}, v \in {<<>>, KeyA \o <<49>>, KeyA \o <<51>>},
     l \in {0, 3}, r \in {0, 4}, c \in {0, 7}}

\* The decoders: the value is listed at no rank, or at some of the ranks
\* around the two budgets.
PosRanks ==
  {kExpandSizeStart, kExpandSizeStart + 1,
   kExpandSizeStart + kExpandSizeDiff,
   kExpandSizeStart + kExpandSizeDiff + 1, MaxRank}

PosDecoders == {[ranks |-> s, fail |-> f] : s \in SUBSET PosRanks, f \in 0..2}

\* The buffer that holds candidate c alone.
Holding(c) ==
  [NewSegments EXCEPT !.segs =
     <<[NewSegment EXCEPT !.key = c.key, !.candidates = <<c>>]>>]

InitPos ==
  /\ segments \in {Holding(c) : c \in PosInputs}
  /\ before = segments
  /\ op = NoOp
  /\ out = [ret |-> TRUE, calls |-> <<>>, stats |-> <<>>, ub |-> FALSE,
            dcheck |-> TRUE, mid |-> <<>>, depth |-> 0, addr |-> NoAddr]
  /\ finished = FALSE
  /\ crashed = FALSE
  /\ nops = 0
  /\ committed = <<>>
  /\ sessions = [s \in Sessions |->
                   [buf |-> NewSegments, pc |-> "idle", call |-> NoOp,
                    log |-> <<>>]]
  /\ builder = NewBuilderState

\* CompletePosIds on the candidate of the buffer; out.mid holds the
\* requests sent to the decoder.
CompletePosIdsOp(Decoders, bound) ==
  \E d \in Decoders :
    /\ Ready(bound)
    /\ \E r \in {CompletePosIdsWith(segments.segs[1].candidates[1], d)} :
         Apply([NoOp EXCEPT !.name = "CompletePosIds", !.oracle = d],
               [Result(Holding(r.candidate), TRUE,
                       [i \in 1..Len(r.sent) |-> "ConvertForRequest"])
                EXCEPT !.mid = r.sent])

NextPos ==
  \/ CompletePosIdsOp(PosDecoders, MaxOps)
  \/ Return

SpecPos == InitPos /\ [][NextPos]_vars

\* Whether the decoder d lists the value within the budget of its n-th call.
HitWithin(d, n) ==
  \E i \in d.ranks : i <= kExpandSizeStart + (n - 1) * kExpandSizeDiff

\* The call of decoder d that returns the value: 1, 2, or 0 when a call
\* fails first or neither call lists it.
MatchingCall(d) ==
  IF d.fail # 1 /\ HitWithin(d, 1) THEN 1
  ELSE IF d.fail = 0 /\ HitWithin(d, 2) THEN 2
  ELSE 0

\* Least rank at which decoder d lists the value.
LeastRank(d) == CHOOSE i \in d.ranks : \A j \in d.ranks : i <= j

\* With a decoder that lists the value at one rank and never fails, the
\* candidate keeps the general-noun ids exactly when CompletePosIds, given
\* that rank alone, leaves them.
AgreesWithRank(c, r, d) ==
  (d.fail = 0 /\ Cardinality(d.ranks) = 1) =>
    ((r.lid = general_noun_id) <=>
       (CompletePosIds(c, LeastRank(d)).lid = general_noun_id))

\* C32: CompletePosIds leaves a candidate with both ids non-zero, or with
\* an empty key or value, as it is and asks the decoder nothing.  Otherwise
\* it sends PREDICTION requests for the candidate's key with budgets 5 and
\* then 55, at most two, the second only when the first succeeded without
\* listing the value; the candidate takes lid, rid, cost, wcost and
\* structure_cost of the first listed candidate with its value, and when no
\* call lists it or a call fails it ends with lid = rid = general_noun_id
\* and its costs as they were.
C32_PosBackfill ==
  (op.name = "CompletePosIds" /\ ~crashed) =>
    LET c == before.segs[1].candidates[1]
        r == segments.segs[1].candidates[1]
        d == op.oracle
        m == MatchingCall(d)
    IN  IF c.value = <<>> \/ c.key = <<>> \/ (c.lid # 0 /\ c.rid # 0)
          THEN r = c /\ out.mid = <<>> /\ r = CompletePosIds(c, 1)
        ELSE IF c.value # KeyA \o <<49>>
          THEN /\ r = [c EXCEPT !.lid = general_noun_id,
                                !.rid = general_noun_id]
               /\ out.mid = IF d.fail = 1
                              THEN <<PosRequest(c.key, 5)>>
                              ELSE <<PosRequest(c.key, 5),
                                     PosRequest(c.key, 55)>>
        ELSE /\ Len(out.mid) = (IF m = 1 \/ d.fail = 1 THEN 1 ELSE 2)
             /\ out.mid = SubSeq(<<PosRequest(c.key, 5),
                                   PosRequest(c.key, 55)>>, 1, Len(out.mid))
             /\ r = IF m = 0
                      THEN [c EXCEPT !.lid = general_noun_id,
                                     !.rid = general_noun_id]
                      ELSE [c EXCEPT
                              !.lid = DecoderPosId + LeastRank(d),
                              !.rid = DecoderPosId + 2 * LeastRank(d),
                              !.cost = 100 + LeastRank(d),
                              !.wcost = 200 + LeastRank(d),
                              !.structure_cost = 300 + LeastRank(d)]
             /\ AgreesWithRank(c, r, d)

\* CompletePosIds has found the value on its second request, where the
\* decoder lists it twice, and has taken the ids and costs of the first.
C32_Witness ==
  /\ op.name = "CompletePosIds"
  /\ ~crashed
  /\ Len(out.mid) = 2
  /\ Cardinality({i \in op.oracle.ranks : i <= 55}) = 2
  /\ before.segs[1].candidates[1].lid # 0
  /\ before.segs[1].candidates[1].cost = 7
  /\ segments.segs[1].candidates[1].cost = 100 + LeastRank(op.oracle)
  /\ segments.segs[1].candidates[1].lid # general_noun_id

(***************************************************************************)
(* C33: a conversion-relative index past the conversion segments.          *)
(***************************************************************************)
\* The operations that translate segment_index with GetSegmentIndex and
\* return false on kErrorIndex.
TranslatingOps ==
  {"CommitSegmentValue", "FocusSegmentValue", "ResizeSegments",
   "CommitPartialSuggestionSegmentValue"}

\* C33: for every segment_index >= conversion_segments_size(), also one so
\* large that history_segments_size() + segment_index wraps, the operation
\* returns false, addresses no segment and leaves the buffer as it was.
C33_OverflowRejected ==
  (/\ op.name \in TranslatingOps
   /\ ~crashed
   /\ op.segment_index >= conversion_segments_size(before))
    => (~out.ret /\ out.addr = NoAddr /\ segments = before)

\* The same for the indices whose sum with the history size does not wrap.
C33_RejectedUnlessWrapped ==
  (/\ op.name \in TranslatingOps
   /\ ~crashed
   /\ op.segment_index >= conversion_segments_size(before)
   /\ history_segments_size(before) + op.segment_index < SizeTMod)
    => (~out.ret /\ out.addr = NoAddr /\ segments = before)

(***************************************************************************)
(* C34: the assertions of StartPrediction on the buffer it hands to the    *)
(* predictor.                                                              *)
(***************************************************************************)
\* C34: whenever StartPrediction invokes the predictor the conversion
\* suffix is exactly one segment and its key is the key of the request.
C34_PredictorSeesOneSegment ==
  op.name = "StartPrediction" =>
    /\ conversion_segments_size(out.mid[1]) = 1
    /\ conversion_segment(out.mid[1], 0).key = op.request.key

\* The key assertion alone: the first conversion segment handed to the
\* predictor carries the key of the request.
C34_PredictorSeesKey ==
  op.name = "StartPrediction" =>
    /\ conversion_segments_size(out.mid[1]) >= 1
    /\ conversion_segment(out.mid[1], 0).key = op.request.key

(***************************************************************************)
(* C35: the candidates read when the usage counters are emitted.           *)
(***************************************************************************)
\* C35: CommitUsageStats reads candidate(0) only of segments that hold a
\* candidate: FinishConversion, CommitSegments and
\* CommitPartialSuggestionSegmentValue never emit the counters over a
\* segment with an empty candidate list.
C35_CountedSegmentsHaveCandidates ==
  (op.name \in {"FinishConversion", "CommitSegments",
                "CommitPartialSuggestionSegmentValue"}
   /\ out.stats # <<>>)
    => ~out.ub

\* The same for the two commit operations, which count segments they have
\* just committed.
C35_CommittedSegmentsHaveCandidates ==
  (op.name \in {"CommitSegments", "CommitPartialSuggestionSegmentValue"}
   /\ out.ret /\ out.stats # <<>>)
    => \A i \in 1..Len(segments.segs) :
         segments.segs[i].segment_type = "SUBMITTED"
           => Len(segments.segs[i].candidates) > 0

(***************************************************************************)
(* C36: a resize request of the rewriter during StartPrediction.           *)
(***************************************************************************)
C36_Case ==
  op.name = "StartPrediction" /\ ~crashed /\ op.oracle.resize # <<>>

\* The keys of the segments of S, in order.
SegmentKeys(S) == [i \in 1..Len(S.segs) |-> S.segs[i].key]

\* C36: when the rewriter answers StartPrediction's resize check with a
\* request, the request changes nothing: the segments handed to the
\* predictor keep their boundaries and keys and the resized flag, the
\* decoder is not called, the resize check and Rewrite run once each, and
\* the buffer and the return value are those of the same call with a
\* rewriter that asks for no resize.
C36_PredictionIgnoresResize ==
  C36_Case =>
    /\ SegmentKeys(segments) = SegmentKeys(Keyed)
    /\ segments.resized = Keyed.resized
    /\ Count(out.calls, "ConvertForRequest") = 0
    /\ Count(out.calls, "CheckResizeSegmentsRequest") = 1
    /\ Count(out.calls, "Rewrite") = 1
    /\ out.depth = 0
    /\ segments = Handle(WithoutResizeRequest, before).S
    /\ out.ret = Handle(WithoutResizeRequest, before).ret

\* StartPrediction has returned where the rewriter asked to pin one
\* character of a two-character key and the predictor had predictions.
C36_Witness ==
  /\ C36_Case
  /\ op.oracle.resize[1] = PinFirst
  /\ CharsLen(op.request.key) = 2
  /\ op.request.request_type \in PartialTypes
  /\ conversion_segments_size(segments) = 1
  /\ Len(conversion_segment(segments, 0).candidates) > 0

(***************************************************************************)
(* C37: how often a segment enters the usage counters.  SUBMITTED is       *)
(* written by CommitSegments and CommitPartialSuggestionSegmentValue only, *)
(* and a segment that leaves them SUBMITTED behind the history prefix has  *)
(* been counted by them.                                                   *)
(***************************************************************************)
\* The positions behind the history prefix of S that hold a SUBMITTED
\* segment.
SubmittedInSuffix(S) ==
  {i \in (history_segments_size(S) + 1)..Len(S.segs) :
     S.segs[i].segment_type = "SUBMITTED"}

\* The number of segments the operation counted.
CountedNow ==
  Len(SelectSeq(out.stats,
                LAMBDA e : e.name = "SubmittedSegmentLengthx1000"))

\* Only CommitPartialSuggestionSegmentValue brings a SUBMITTED segment
\* behind the history prefix, one per call, and it counts that segment.
C37_SubmittedWereCounted ==
  (~crashed
   /\ Cardinality(SubmittedInSuffix(segments))
        > Cardinality(SubmittedInSuffix(before)))
    => /\ op.name = "CommitPartialSuggestionSegmentValue"
       /\ out.ret
       /\ CountedNow = 1
       /\ Cardinality(SubmittedInSuffix(segments))
            = Cardinality(SubmittedInSuffix(before)) + 1

\* C37: between a Start* call and the next FinishConversion a segment is
\* counted at most once: the segments FinishConversion counts, those
\* behind the history prefix, hold none that a commit has counted already.
C37_CountedOnce ==
  (op.name = "FinishConversion" /\ CountedNow > 0)
    => SubmittedInSuffix(before) = {}

\* The same for the segments that CommitSegments has counted, and for a
\* partial commit of the first conversion segment: they are in the history
\* prefix afterwards, no further SUBMITTED segment is behind it.
C37_FrontCommitsLeaveSuffix ==
  (/\ ~crashed
   /\ out.ret
   /\ \/ op.name = "CommitSegments"
      \/ /\ op.name = "CommitPartialSuggestionSegmentValue"
         /\ op.segment_index = 0)
    => Cardinality(SubmittedInSuffix(segments))
         <= Cardinality(SubmittedInSuffix(before))

(***************************************************************************)
(* ConversionRequestBuilder in use: any sequence of its calls, up to       *)
(* MaxBuilderCalls.  DCHECK_LE(stage_, n) ends the process in a debug      *)
(* build and is compiled out in a release build, where the call goes on.   *)
(***************************************************************************)
MaxBuilderCalls == 4

\* The composition "あい1" with cursor after "あ"; the prediction query
\* drops the trailing "1".
ComposerAI == ComposerData(KeyAI1, KeyAI, 1)

\* A request built earlier, the argument of SetConversionRequest.
BaseRequest ==
  Build([NewBuilder EXCEPT
           !.composer_data = ComposerData(KeyAI, KeyA, 1),
           !.config = Config(<<1>>, <<1>>, <<1>>)])

BuilderCalls ==
  {[name |-> "Build"],
   [name |-> "SetConversionRequest", arg |-> BaseRequest],
   [name |-> "SetComposerData", arg |-> ComposerAI],
   [name |-> "SetComposer", arg |-> ComposerData(KeyA, KeyA, 1)],
   [name |-> "SetRequest", arg |-> <<1>>],
   [name |-> "SetContext", arg |-> <<1>>],
   [name |-> "SetConfig", arg |-> Config(<<2>>, <<2>>, <<2>>)],
   [name |-> "SetOptions",
    arg |-> [DefaultOptions EXCEPT !.request_type = "PREDICTION"]],
   [name |-> "SetOptions",
    arg |-> [DefaultOptions EXCEPT !.composer_key_selection = "PREDICTION_KEY",
                                   !.key = KeyI]],
   [name |-> "SetRequestType", arg |-> "SUGGESTION"],
   [name |-> "SetRequestType", arg |-> "PARTIAL_PREDICTION"],
   [name |-> "SetKey", arg |-> KeyEmpty],
   [name |-> "SetKey", arg |-> KeyA]}

\* The builder state after call c has run on it.
Ran(s, c) ==
  [b |-> Called(s.b, c), was |-> s.b, call |-> c,
   ok |-> s.b.stage <= StageLimit(c.name),
   clean |-> s.clean /\ s.b.stage <= StageLimit(c.name),
   built |-> IF c.name = "Build" THEN Append(s.built, Build(s.b))
             ELSE s.built,
   typed |-> IF c.name = "SetRequestType" THEN <<c.arg>> ELSE s.typed,
   keyed |-> IF c.name = "SetKey" THEN <<c.arg>> ELSE s.keyed,
   n |-> s.n + 1]

\* One call of the builder.  When its assertion fails the process dies
\* (debug build) or the call runs all the same (release build).
BuilderCall(Calls, bound) ==
  \E c \in Calls :
    /\ ~crashed
    /\ builder.n < bound
    /\ \/ /\ builder' = Ran(builder, c)
          /\ crashed' = FALSE
       \/ /\ builder.b.stage > StageLimit(c.name)
          /\ builder' = [builder EXCEPT !.was = builder.b, !.call = c,
                                        !.ok = FALSE, !.clean = FALSE,
                                        !.n = @ + 1]
          /\ crashed' = TRUE
    /\ UNCHANGED <<segments, before, op, out, finished, nops, committed,
                   sessions>>

NextBuilder == BuilderCall(BuilderCalls, MaxBuilderCalls)

SpecBuilder == Init /\ [][NextBuilder]_vars

\* The stage at which the claim says a call is accepted.
AcceptedUpTo(name) ==
  IF name = "SetConversionRequest" THEN 1
  ELSE IF name \in {"SetRequestType", "SetKey", "Build"} THEN 3
  ELSE 2

\* The request the last Build returned.
LastBuilt == builder.built[Len(builder.built)]

\* C38: along a sequence of builder calls whose assertions all hold the
\* stage never decreases; a call's assertion holds exactly when the stage
\* is at most 1 for SetConversionRequest, 2 for SetComposerData,
\* SetComposer, SetRequest, SetContext, SetConfig and SetOptions, 3 for
\* SetRequestType, SetKey and Build, so none holds after Build; the
\* request type and the key last given to SetRequestType / SetKey are the
\* ones the builder holds and builds with; and the key of a built request
\* is the key the builder held when that is non-empty, else the key
\* GetKey derives from the composer for the request type.
C38_BuilderProtocol ==
  builder.call.name # "none" =>
    /\ builder.ok <=> builder.was.stage <= AcceptedUpTo(builder.call.name)
    /\ builder.was.stage = 100 => ~builder.ok
    /\ builder.clean =>
         /\ builder.b.stage >= builder.was.stage
         /\ builder.typed # <<>> =>
              builder.b.options.request_type = builder.typed[1]
         /\ builder.keyed # <<>> =>
              builder.b.options.key = builder.keyed[1]
         /\ (builder.built # <<>> /\ builder.typed # <<>>) =>
              LastBuilt.options.request_type = builder.typed[1]
         /\ (builder.built # <<>> /\ builder.keyed # <<>>
             /\ builder.keyed[1] # <<>>) =>
              LastBuilt.options.key = builder.keyed[1]
    /\ (builder.call.name = "Build" /\ ~crashed) =>
         LastBuilt.options.key =
           IF builder.was.options.key # <<>> THEN builder.was.options.key
           ELSE GetKey(builder.was.composer_data,
                       builder.was.options.request_type,
                       builder.was.options.composer_key_selection)

\* Build has returned after SetConversionRequest, SetOptions with a key,
\* and SetRequestType, all accepted: the request carries the key of the
\* options and the type given last.
C38_Witness ==
  /\ builder.call.name = "Build"
  /\ builder.clean
  /\ builder.n = 4
  /\ builder.was.stage = 3
  /\ builder.typed = <<"PARTIAL_PREDICTION">>
  /\ builder.was.composer_data = BaseRequest.composer
  /\ LastBuilt.options.key = KeyI
  /\ LastBuilt.options.request_type = "PARTIAL_PREDICTION"

====
